---------------------------- MODULE Spec2Model ----------------------------
(***************************************************************************)
(* AetherLink / LinkNebula protocol engine: the forward node's packet      *)
(* handlers, its service directory and routing table, and the simulated    *)
(* shared bus with one client, one forward and one server.                 *)
(*                                                                         *)
(* Slot arrays are functions over 1..CAPACITY (Rust index i is slot i+1)   *)
(* and byte buffers are sequences (Rust data[i] is data[i+1]).             *)
(***************************************************************************)
EXTENDS Integers, Sequences, FiniteSets, TLC

VARIABLES
    services,           \* NetworkServiceDirectory.services
    service_count,      \* NetworkServiceDirectory.service_count
    last_cleanup_time,  \* NetworkServiceDirectory.last_cleanup_time
    routes,             \* ForwardingEngine.routes
    route_count,        \* ForwardingEngine.route_count
    cleanup_timer,      \* ForwardingEngine.cleanup_timer
    clock,              \* the forward's get_timestamp_ms(), monotonic
    overflow_checks,    \* build profile: TRUE = arithmetic overflow panics
    panicked,           \* the forward has aborted in a panic
    last,               \* the operation executed last, with its arguments
    tx,                 \* the packets that operation handed to send_data
    chain,              \* the messages of one handshake, in order
    packets,            \* SimChannel.packets
    beacons,            \* SimChannel.beacons
    client,             \* the client's position in request_service / loop
    forward_pc,         \* the forward's position in its loop body
    election,           \* ElectionProtocol: election_id, state, current_master
    delivered,          \* what receive_data returned, and to which node
    peer_election,      \* ElectionProtocol of a second forward on the bus
    timers              \* forward_main: beacon_timer, election_timer, directory_cleanup_timer

vars == <<services, service_count, last_cleanup_time, routes, route_count,
          cleanup_timer, clock, overflow_checks, panicked, last, tx, chain,
          packets, beacons, client, forward_pc, election, delivered,
          peer_election, timers>>

dirVars == <<services, service_count, last_cleanup_time>>
routeVars == <<routes, route_count, cleanup_timer>>
netVars == <<packets, beacons, client, forward_pc, election, delivered,
            peer_election, timers>>

-----------------------------------------------------------------------------
(* Program constants *)

DIR_CAPACITY == 32
ROUTE_CAPACITY == 32
MAX_PACKET_SIZE == 256
DATA_HEADER_SIZE == 22
SERVICE_REQUEST_LEN == 8
SERVICE_RESPONSE_LEN == 11
PATH_DATA_LEN == 20
PATH_ESTABLISH_MIN_LEN == 12
PATH_CONFIRM_LEN == 8
SERVICE_EXPIRY_MS == 300000
ROUTE_EXPIRY_MS == 300000
CLEANUP_INTERVAL_MS == 30000
MAX_RETRIES == 10
SERVER_BEACON_INTERVAL_MS == 30000
RECORD_LEN == 20
SRV_COMMAND == 2
SRV_QUERY == 3
CMD_Query == 1
CMD_Reboot == 4
VIDEO_DATA_TAG == 1
PATH_TIMEOUT_MS == 30000
VIDEO_INTERVAL_MS == 500
VIDEO_DATA_LEN == 21
FRAME_MODULUS == 10000

ELECTION_START == 1
ELECTION_RESPONSE == 2
ELECTION_RESULT == 3
ELECTION_START_LEN == 4
ELECTION_RESULT_LEN == 9

PT_Beacon == 1
PT_Data == 2
PT_Ack == 3
PT_Control == 4
PT_ServiceRequest == 5
PT_ServiceResponse == 6
PT_PathEstablish == 7
PT_PathConfirm == 8

ST_Storage == 1
ST_VideoRelay == 4
ST_SensorCollection == 7

PathStatus_Success == 0
PathStatus_QosNotMet == 2

U8 == 256
U16 == 65536

\* Option::None, for a slot and for a decoded value
NoEntry == [none |-> TRUE]
NoValue == [none |-> TRUE]

BROADCAST == <<255, 255, 255, 255, 255, 255>>
ClientId == <<193, 194, 195, 196, 197, 198>>
ForwardId == <<241, 242, 243, 244, 245, 246>>
ServerId == <<81, 82, 83, 84, 85, 86>>

IsBroadcast(id) == id = BROADCAST

-----------------------------------------------------------------------------
(* Byte helpers *)

Min(a, b) == IF a <= b THEN a ELSE b

BE16(v) == <<v \div 256, v % 256>>

BE32(v) == <<v \div 16777216, (v \div 65536) % 256, (v \div 256) % 256, v % 256>>

FromBE16(hi, lo) == hi * 256 + lo

FromBE32(b0, b1, b2, b3) == b0 * 16777216 + b1 * 65536 + b2 * 256 + b3

Zeros(n) == [i \in 1..n |-> 0]

(* u64 millisecond timestamps are kept as two 32-bit words, value =        *)
(* hi * 2^32 + lo, because the checker's integers are 32 bits wide.        *)
Time(hi, lo) == [hi |-> hi, lo |-> lo]

TimeZero == Time(0, 0)

TimeLE(a, b) == a.hi < b.hi \/ (a.hi = b.hi /\ a.lo <= b.lo)

\* `t as u32`: the low word
AsU32(t) == t.lo

\* now - then for now >= then, saturated at 2^31 - 1: when the high words
\* differ the difference is at least 2^31, above every limit it is compared to.
Elapsed(now, then) ==
    IF now.hi = then.hi THEN now.lo - then.lo ELSE 2147483647

-----------------------------------------------------------------------------
(* common/protocol: DataPacket and the ServiceRequest / ServiceResponse codec *)

\* DataPacket::new asserts that the payload fits the maximum packet size.
FitsPacket(data) == Len(data) <= MAX_PACKET_SIZE - DATA_HEADER_SIZE

\* DataPacket::new: the header type is always Data, whatever the payload is.
NewDataPacket(src, dst, id, data) ==
    [packet_type |-> PT_Data, source |-> src, destination |-> dst,
     packet_id |-> id, data |-> data]

\* A packet as it comes off the wire: receive_data reads the type from the bytes.
WirePacket(ptype, src, dst, id, data) ==
    [packet_type |-> ptype, source |-> src, destination |-> dst,
     packet_id |-> id, data |-> data]

SerializeServiceRequest(req) ==
    <<req.service_type>> \o BE16(req.qos.min_bandwidth)
        \o BE16(req.qos.max_latency) \o <<req.qos.reliability>>
        \o SubSeq(BE32(req.expiry_time), 1, 2)

\* A decoder that takes any first byte for a service type (not what the
\* code does).
DeserializeServiceRequest_AnyType(buffer) ==
    IF Len(buffer) < SERVICE_REQUEST_LEN THEN NoValue
    ELSE [service_type |-> buffer[1],
          qos |-> [min_bandwidth |-> FromBE16(buffer[2], buffer[3]),
                   max_latency |-> FromBE16(buffer[4], buffer[5]),
                   reliability |-> buffer[6]],
          expiry_time |-> FromBE32(buffer[7], buffer[8], 0, 0)]

DeserializeServiceRequest(buffer) ==
    IF Len(buffer) < SERVICE_REQUEST_LEN THEN NoValue
    ELSE IF buffer[1] \notin 1..7 THEN NoValue
    ELSE [service_type |-> buffer[1],
          qos |-> [min_bandwidth |-> FromBE16(buffer[2], buffer[3]),
                   max_latency |-> FromBE16(buffer[4], buffer[5]),
                   reliability |-> buffer[6]],
          expiry_time |-> FromBE32(buffer[7], buffer[8], 0, 0)]

SerializeServiceResponse(resp) ==
    BE32(resp.service_id) \o resp.server_node_id \o <<resp.status>>

DeserializeServiceResponse(buffer) ==
    IF Len(buffer) < SERVICE_RESPONSE_LEN THEN NoValue
    ELSE [service_id |-> FromBE32(buffer[1], buffer[2], buffer[3], buffer[4]),
          server_node_id |-> SubSeq(buffer, 5, 10),
          status |-> buffer[11]]

-----------------------------------------------------------------------------
(* forward/directory/service_directory.rs *)

\* A score whose bandwidth term is not capped at a surplus of 1000 (not what
\* the code does).
Score_Uncapped(e, qos) ==
    IF e.capabilities.max_bandwidth < qos.min_bandwidth THEN 0
    ELSE IF e.capabilities.min_latency > qos.max_latency THEN 0
    ELSE IF e.capabilities.reliability < qos.reliability THEN 0
    ELSE LET bw == 40 * (1 + (e.capabilities.max_bandwidth - qos.min_bandwidth) \div 100)
             lat == 30 * (1 + Min(qos.max_latency - e.capabilities.min_latency, 500) \div 50)
             rel == 20 * (1 + Min(e.capabilities.reliability - qos.reliability, 50) \div 10)
             ld == ((10 * ((100 - e.load) % U16)) % U16) \div 10
             bat == (5 * e.capabilities.battery_level) \div 10
             sig == IF e.metrics.signal_strength > -60 THEN 5
                    ELSE IF e.metrics.signal_strength > -75 THEN 3
                    ELSE IF e.metrics.signal_strength > -90 THEN 1
                    ELSE 0
         IN  (bw + lat + rel + ld + bat + sig) % U16

\* ServiceEntry::score, in u16 arithmetic.  The three hard bounds return 0
\* before any subtraction, so the subtractions below never go negative; the
\* load term is taken modulo 2^16 as a release build computes it.
Score(e, qos) ==
    IF e.capabilities.max_bandwidth < qos.min_bandwidth THEN 0
    ELSE IF e.capabilities.min_latency > qos.max_latency THEN 0
    ELSE IF e.capabilities.reliability < qos.reliability THEN 0
    ELSE LET bw == 40 * (1 + Min(e.capabilities.max_bandwidth - qos.min_bandwidth, 1000) \div 100)
             lat == 30 * (1 + Min(qos.max_latency - e.capabilities.min_latency, 500) \div 50)
             rel == 20 * (1 + Min(e.capabilities.reliability - qos.reliability, 50) \div 10)
             ld == ((10 * ((100 - e.load) % U16)) % U16) \div 10
             bat == (5 * e.capabilities.battery_level) \div 10
             sig == IF e.metrics.signal_strength > -60 THEN 5
                    ELSE IF e.metrics.signal_strength > -75 THEN 3
                    ELSE IF e.metrics.signal_strength > -90 THEN 1
                    ELSE 0
         IN  (bw + lat + rel + ld + bat + sig) % U16

EmptyDirectory == [i \in 1..DIR_CAPACITY |-> NoEntry]

\* iter().position(..): the lowest slot satisfying the test, 0 for None.
FindServiceIndex(dir, node_id, service_type) ==
    LET hits == {i \in 1..DIR_CAPACITY :
                    /\ dir[i] # NoEntry
                    /\ dir[i].node_id = node_id
                    /\ dir[i].service_type = service_type}
    IN  IF hits = {} THEN 0 ELSE CHOOSE i \in hits : \A j \in hits : i <= j

DirFindFreeSlot(dir) ==
    LET free == {i \in 1..DIR_CAPACITY : dir[i] = NoEntry}
    IN  IF free = {} THEN 0 ELSE CHOOSE i \in free : \A j \in free : i <= j

\* A scan that lets a later entry with an equal score win (not what the code
\* does).
RECURSIVE ScanBest_LastWins(_, _, _, _, _, _)
ScanBest_LastWins(dir, service_type, qos, i, best, best_score) ==
    IF i > DIR_CAPACITY THEN best
    ELSE IF /\ dir[i] # NoEntry
            /\ dir[i].service_type = service_type
            /\ Score(dir[i], qos) >= best_score
         THEN ScanBest_LastWins(dir, service_type, qos, i + 1, i, Score(dir[i], qos))
         ELSE ScanBest_LastWins(dir, service_type, qos, i + 1, best, best_score)

\* The scan of find_best_service: slot i, the best slot so far and its score.
RECURSIVE ScanBest(_, _, _, _, _, _)
ScanBest(dir, service_type, qos, i, best, best_score) ==
    IF i > DIR_CAPACITY THEN best
    ELSE IF /\ dir[i] # NoEntry
            /\ dir[i].service_type = service_type
            /\ Score(dir[i], qos) > best_score
         THEN ScanBest(dir, service_type, qos, i + 1, i, Score(dir[i], qos))
         ELSE ScanBest(dir, service_type, qos, i + 1, best, best_score)

\* A lookup that takes the first entry of the type, whatever its score (not
\* what the code does).
FindBestService_FirstOfType(dir, service_type, qos) ==
    LET hits == {i \in 1..DIR_CAPACITY :
                    dir[i] # NoEntry /\ dir[i].service_type = service_type}
    IN  IF hits = {} THEN 0 ELSE CHOOSE i \in hits : \A j \in hits : i <= j

\* find_best_service: the slot of the entry returned, 0 for None.
FindBestService(dir, service_type, qos) == ScanBest(dir, service_type, qos, 1, 0, 0)

NewServiceEntry(node_id, service_type, load, capabilities, metrics, now) ==
    [node_id |-> node_id, service_type |-> service_type, load |-> load,
     capabilities |-> capabilities, metrics |-> metrics, last_update_time |-> now]

\* An update that never looks for the key and always takes a free slot (not
\* what the code does).
UpdateService_AlwaysInsert(dir, count, node_id, service_type, load, capabilities, metrics, now) ==
    IF DirFindFreeSlot(dir) # 0
    THEN [services |-> [dir EXCEPT ![DirFindFreeSlot(dir)] =
                            NewServiceEntry(node_id, service_type, load,
                                            capabilities, metrics, now)],
          service_count |-> count + 1, ok |-> TRUE]
    ELSE [services |-> dir, service_count |-> count, ok |-> FALSE]

\* An update that, like the routing table, overwrites the first slot when no
\* slot is free (not what the code does).
UpdateService_EvictWhenFull(dir, count, node_id, service_type, load, capabilities, metrics, now) ==
    LET index == FindServiceIndex(dir, node_id, service_type)
        free == DirFindFreeSlot(dir)
        slot == IF index # 0 THEN index ELSE IF free # 0 THEN free ELSE 1
    IN  [services |-> [dir EXCEPT ![slot] =
                          NewServiceEntry(node_id, service_type, load,
                                          capabilities, metrics, now)],
         service_count |-> IF index = 0 /\ free # 0 THEN count + 1 ELSE count,
         ok |-> TRUE]

\* update_service: the directory after the call, its count and the result.
UpdateService(dir, count, node_id, service_type, load, capabilities, metrics, now) ==
    LET index == FindServiceIndex(dir, node_id, service_type)
        free == DirFindFreeSlot(dir)
    IN  IF index # 0
        THEN [services |-> [dir EXCEPT ![index] =
                                [@ EXCEPT !.load = load,
                                          !.capabilities = capabilities,
                                          !.metrics = metrics,
                                          !.last_update_time = now]],
              service_count |-> count, ok |-> TRUE]
        ELSE IF free # 0
        THEN [services |-> [dir EXCEPT ![free] =
                                NewServiceEntry(node_id, service_type, load,
                                                capabilities, metrics, now)],
              service_count |-> count + 1, ok |-> TRUE]
        ELSE [services |-> dir, service_count |-> count, ok |-> FALSE]

DefaultCapabilities ==
    [max_bandwidth |-> 1000, min_latency |-> 100, reliability |-> 90, battery_level |-> 100]

DefaultMetrics ==
    [success_rate |-> 100, avg_response_time |-> 50, signal_strength |-> -70]

\* register_service: update_service with default values and time 0.
RegisterService(dir, count, node_id, service_type) ==
    UpdateService(dir, count, node_id, service_type, 0, DefaultCapabilities,
                  DefaultMetrics, TimeZero)

RemoveService(dir, count, node_id, service_type) ==
    LET index == FindServiceIndex(dir, node_id, service_type)
    IN  IF index # 0
        THEN [services |-> [dir EXCEPT ![index] = NoEntry],
              service_count |-> count - 1]
        ELSE [services |-> dir, service_count |-> count]

\* cleanup: throttled to one sweep per 30 s; the sweep drops idle entries.
DirExpired(dir, now) ==
    {i \in 1..DIR_CAPACITY :
        dir[i] # NoEntry /\ Elapsed(now, dir[i].last_update_time) > SERVICE_EXPIRY_MS}

\* A sweep that runs on every call, however recent the last one (not what the
\* code does).
DirCleanup_Unthrottled(dir, count, last_cleanup, now) ==
    [services |-> [i \in 1..DIR_CAPACITY |->
                      IF i \in DirExpired(dir, now) THEN NoEntry ELSE dir[i]],
     service_count |-> count - Cardinality(DirExpired(dir, now)),
     last_cleanup_time |-> now]

DirCleanup(dir, count, last_cleanup, now) ==
    IF Elapsed(now, last_cleanup) < CLEANUP_INTERVAL_MS
    THEN [services |-> dir, service_count |-> count, last_cleanup_time |-> last_cleanup]
    ELSE [services |-> [i \in 1..DIR_CAPACITY |->
                            IF i \in DirExpired(dir, now) THEN NoEntry ELSE dir[i]],
          service_count |-> count - Cardinality(DirExpired(dir, now)),
          last_cleanup_time |-> now]

-----------------------------------------------------------------------------
(* forward/routing/dynamic_forwarding.rs *)

EmptyRoutes == [i \in 1..ROUTE_CAPACITY |-> NoEntry]

FindRoute(rt, destination) ==
    LET hits == {i \in 1..ROUTE_CAPACITY :
                    rt[i] # NoEntry /\ rt[i].destination = destination}
    IN  IF hits = {} THEN 0 ELSE CHOOSE i \in hits : \A j \in hits : i <= j

RouteFindFreeSlot(rt) ==
    LET free == {i \in 1..ROUTE_CAPACITY : rt[i] = NoEntry}
    IN  IF free = {} THEN 0 ELSE CHOOSE i \in free : \A j \in free : i <= j

\* A new entry routed by way of the broadcast address (not what the code does).
NewRouteEntry_ViaBroadcast(destination, metric, timestamp) ==
    [destination |-> destination, next_hop |-> BROADCAST,
     metric |-> metric, timestamp |-> timestamp]

NewRouteEntry(destination, metric, timestamp) ==
    [destination |-> destination, next_hop |-> destination,
     metric |-> metric, timestamp |-> timestamp]

\* An update without the check for the node's own id (not what the code does).
UpdateRoute_AcceptsSelf(self, rt, count, timer, destination, metric) ==
    LET index == FindRoute(rt, destination)
        free == RouteFindFreeSlot(rt)
    IN  IF index # 0
        THEN [routes |-> [rt EXCEPT ![index] =
                              [@ EXCEPT !.metric = metric, !.timestamp = timer]],
              route_count |-> count]
        ELSE IF free # 0
        THEN [routes |-> [rt EXCEPT ![free] = NewRouteEntry(destination, metric, timer)],
              route_count |-> count + 1]
        ELSE [routes |-> [rt EXCEPT ![1] = NewRouteEntry(destination, metric, timer)],
              route_count |-> count]

\* An update that turns a new destination away when no slot is free (not
\* what the code does).
UpdateRoute_DropWhenFull(self, rt, count, timer, destination, metric) ==
    LET index == FindRoute(rt, destination)
        free == RouteFindFreeSlot(rt)
    IN  IF destination = self
        THEN [routes |-> rt, route_count |-> count]
        ELSE IF index # 0
        THEN [routes |-> [rt EXCEPT ![index] =
                              [@ EXCEPT !.metric = metric, !.timestamp = timer]],
              route_count |-> count]
        ELSE IF free # 0
        THEN [routes |-> [rt EXCEPT ![free] = NewRouteEntry(destination, metric, timer)],
              route_count |-> count + 1]
        ELSE [routes |-> rt, route_count |-> count]

\* update_route: the timestamp is the engine's cleanup_timer field.
UpdateRoute(self, rt, count, timer, destination, metric) ==
    LET index == FindRoute(rt, destination)
        free == RouteFindFreeSlot(rt)
    IN  IF destination = self
        THEN [routes |-> rt, route_count |-> count]
        ELSE IF index # 0
        THEN [routes |-> [rt EXCEPT ![index] =
                              [@ EXCEPT !.metric = metric, !.timestamp = timer]],
              route_count |-> count]
        ELSE IF free # 0
        THEN [routes |-> [rt EXCEPT ![free] = NewRouteEntry(destination, metric, timer)],
              route_count |-> count + 1]
        ELSE [routes |-> [rt EXCEPT ![1] = NewRouteEntry(destination, metric, timer)],
              route_count |-> count]

\* get_next_hop: the next hop of the matching entry, NoValue for None.
GetNextHop(rt, destination) ==
    IF FindRoute(rt, destination) # 0
    THEN [some |-> rt[FindRoute(rt, destination)].next_hop]
    ELSE NoValue

\* A removal that forgets to lower the count (not what the code does).
RemoveRoute_KeepsCount(rt, count, destination) ==
    IF FindRoute(rt, destination) # 0
    THEN [routes |-> [rt EXCEPT ![FindRoute(rt, destination)] = NoEntry],
          route_count |-> count]
    ELSE [routes |-> rt, route_count |-> count]

\* remove_route
RemoveRoute(rt, count, destination) ==
    IF FindRoute(rt, destination) # 0
    THEN [routes |-> [rt EXCEPT ![FindRoute(rt, destination)] = NoEntry],
          route_count |-> count - 1]
    ELSE [routes |-> rt, route_count |-> count]

\* clear
ClearRoutes == [routes |-> EmptyRoutes, route_count |-> 0]

\* A sweep that also drops the entries exactly 300000 ms old (not what the
\* code does).
RouteCleanup_AtExpiry(rt, count, now) ==
    LET old == {i \in 1..ROUTE_CAPACITY :
                   rt[i] # NoEntry /\ Elapsed(now, rt[i].timestamp) >= ROUTE_EXPIRY_MS}
    IN  [routes |-> [i \in 1..ROUTE_CAPACITY |-> IF i \in old THEN NoEntry ELSE rt[i]],
         route_count |-> count - Cardinality(old)]

\* ForwardingEngine::cleanup: drops the entries older than 5 minutes.
RouteExpired(rt, now) ==
    {i \in 1..ROUTE_CAPACITY :
        rt[i] # NoEntry /\ Elapsed(now, rt[i].timestamp) > ROUTE_EXPIRY_MS}

RouteCleanup(rt, count, now) ==
    [routes |-> [i \in 1..ROUTE_CAPACITY |->
                    IF i \in RouteExpired(rt, now) THEN NoEntry ELSE rt[i]],
     route_count |-> count - Cardinality(RouteExpired(rt, now))]

-----------------------------------------------------------------------------
(* forward/main.rs: the packet handlers.  Each yields what it hands to     *)
(* send_data, in order, and whether it panicked.                           *)

Sent(pkts) == [tx |-> pkts, panic |-> FALSE]
Panic(pkts) == [tx |-> pkts, panic |-> TRUE]

\* DataPacket::new followed by send_data, for one packet.
SendNew(self, dst, id, data) ==
    IF FitsPacket(data) THEN Sent(<<NewDataPacket(self, dst, id, data)>>)
    ELSE Panic(<<>>)

\* A relay that also repeats broadcast packets (not what the code does).
HandleDataPacket_RelayBroadcast(self, rt, packet) ==
    IF packet.destination # self
    THEN IF IsBroadcast(packet.destination)
         THEN SendNew(self, BROADCAST, packet.packet_id, packet.data)
         ELSE IF GetNextHop(rt, packet.destination) # NoValue
         THEN SendNew(self, GetNextHop(rt, packet.destination).some,
                      packet.packet_id, packet.data)
         ELSE Sent(<<>>)
    ELSE Sent(<<>>)

\* handle_data_packet
HandleDataPacket(self, rt, packet) ==
    IF ~IsBroadcast(packet.destination) /\ packet.destination # self
    THEN IF GetNextHop(rt, packet.destination) # NoValue
         THEN SendNew(self, GetNextHop(rt, packet.destination).some,
                      packet.packet_id, packet.data)
         ELSE Sent(<<>>)
    ELSE Sent(<<>>)

\* establish_path: 20 bytes of path data, sent with packet id 0.
PathData(client_id, service_type, qos) ==
    client_id \o <<service_type>> \o BE16(qos.min_bandwidth)
        \o BE16(qos.max_latency) \o <<qos.reliability>>
        \o Zeros(PATH_DATA_LEN - PATH_ESTABLISH_MIN_LEN)

\* A path request that goes back to the client (not what the code does).
EstablishPath_ToClient(self, client_id, server, service_type, qos) ==
    NewDataPacket(self, client_id, 0, PathData(client_id, service_type, qos))

EstablishPath(self, client_id, server, service_type, qos) ==
    NewDataPacket(self, server, 0, PathData(client_id, service_type, qos))

\* A handler that stays silent when the directory has no match (not what the
\* code does).
HandleServiceRequest_SilentFailure(self, dir, packet, now) ==
    LET request == DeserializeServiceRequest(packet.data)
        best == FindBestService(dir, request.service_type, request.qos)
    IN  IF request = NoValue THEN Sent(<<>>)
        ELSE IF best # 0
        THEN Sent(<<NewDataPacket(self, packet.source, packet.packet_id,
                        SerializeServiceResponse(
                            [service_id |-> AsU32(now),
                             server_node_id |-> dir[best].node_id,
                             status |-> 0])),
                    EstablishPath(self, packet.source, dir[best].node_id,
                                  request.service_type, request.qos)>>)
        ELSE Sent(<<>>)

\* handle_service_request
HandleServiceRequest(self, dir, packet, now) ==
    LET request == DeserializeServiceRequest(packet.data)
        best == FindBestService(dir, request.service_type, request.qos)
    IN  IF request = NoValue THEN Sent(<<>>)
        ELSE IF best # 0
        THEN Sent(<<NewDataPacket(self, packet.source, packet.packet_id,
                        SerializeServiceResponse(
                            [service_id |-> AsU32(now),
                             server_node_id |-> dir[best].node_id,
                             status |-> 0])),
                    EstablishPath(self, packet.source, dir[best].node_id,
                                  request.service_type, request.qos)>>)
        ELSE Sent(<<NewDataPacket(self, packet.source, packet.packet_id,
                        SerializeServiceResponse(
                            [service_id |-> 0,
                             server_node_id |-> BROADCAST,
                             status |-> 1]))>>)

\* A confirmation numbered one past the request it answers (not what the
\* code does).
HandlePathEstablish_NextId(self, rt, packet) ==
    IF packet.destination # self
    THEN IF GetNextHop(rt, packet.destination) # NoValue
         THEN SendNew(self, GetNextHop(rt, packet.destination).some,
                      packet.packet_id, packet.data)
         ELSE Sent(<<>>)
    ELSE IF Len(packet.data) >= PATH_ESTABLISH_MIN_LEN
         THEN Sent(<<NewDataPacket(self, packet.source, (packet.packet_id + 1) % U16,
                        SubSeq(packet.data, 1, 6) \o <<PathStatus_Success, 1>>)>>)
         ELSE Sent(<<>>)

\* A confirmation that starts the hop count at 0 (not what the code does).
HandlePathEstablish_ZeroHops(self, rt, packet) ==
    IF packet.destination # self
    THEN IF GetNextHop(rt, packet.destination) # NoValue
         THEN SendNew(self, GetNextHop(rt, packet.destination).some,
                      packet.packet_id, packet.data)
         ELSE Sent(<<>>)
    ELSE IF Len(packet.data) >= PATH_ESTABLISH_MIN_LEN
         THEN Sent(<<NewDataPacket(self, packet.source, packet.packet_id,
                        SubSeq(packet.data, 1, 6) \o <<PathStatus_Success, 0>>)>>)
         ELSE Sent(<<>>)

\* handle_path_establish
HandlePathEstablish(self, rt, packet) ==
    IF packet.destination # self
    THEN IF GetNextHop(rt, packet.destination) # NoValue
         THEN SendNew(self, GetNextHop(rt, packet.destination).some,
                      packet.packet_id, packet.data)
         ELSE Sent(<<>>)
    ELSE IF Len(packet.data) >= PATH_ESTABLISH_MIN_LEN
         THEN Sent(<<NewDataPacket(self, packet.source, packet.packet_id,
                        SubSeq(packet.data, 1, 6) \o <<PathStatus_Success, 1>>)>>)
         ELSE Sent(<<>>)

\* handle_path_confirm: hops + 1 is u8 arithmetic; on overflow a build with
\* overflow checks panics and one without wraps to 0.
HandlePathConfirm(self, packet, checks) ==
    IF Len(packet.data) >= PATH_CONFIRM_LEN
    THEN IF packet.data[8] + 1 >= U8 /\ checks
         THEN Panic(<<>>)
         ELSE Sent(<<NewDataPacket(self, SubSeq(packet.data, 1, 6), packet.packet_id,
                        SubSeq(packet.data, 1, 7) \o <<(packet.data[8] + 1) % U8>>)>>)
    ELSE Sent(<<>>)

\* handle_other_packet
HandleOtherPacket(self, rt, packet) ==
    IF packet.destination # self /\ ~IsBroadcast(packet.destination)
    THEN IF GetNextHop(rt, packet.destination) # NoValue
         THEN SendNew(self, GetNextHop(rt, packet.destination).some,
                      packet.packet_id, packet.data)
         ELSE Sent(<<>>)
    ELSE Sent(<<>>)

\* forward_main's match on the header's packet type
Dispatch(self, dir, rt, packet, now, checks) ==
    IF packet.packet_type = PT_Data THEN HandleDataPacket(self, rt, packet)
    ELSE IF packet.packet_type = PT_ServiceRequest
         THEN HandleServiceRequest(self, dir, packet, now)
    ELSE IF packet.packet_type = PT_PathEstablish THEN HandlePathEstablish(self, rt, packet)
    ELSE IF packet.packet_type = PT_PathConfirm THEN HandlePathConfirm(self, packet, checks)
    ELSE HandleOtherPacket(self, rt, packet)

HandlerName(packet) ==
    IF packet.packet_type = PT_Data THEN "handle_data_packet"
    ELSE IF packet.packet_type = PT_ServiceRequest THEN "handle_service_request"
    ELSE IF packet.packet_type = PT_PathEstablish THEN "handle_path_establish"
    ELSE IF packet.packet_type = PT_PathConfirm THEN "handle_path_confirm"
    ELSE "handle_other_packet"

\* handle_beacon: a valid beacon refreshes the route to its source and files
\* the source in the directory as a VideoRelay provider with default values.
BeaconCapabilities(beacon) ==
    [max_bandwidth |-> 1000, min_latency |-> 100, reliability |-> 90,
     battery_level |-> beacon.battery_level]

BeaconMetrics(beacon) ==
    [success_rate |-> 100, avg_response_time |-> 50, signal_strength |-> beacon.rssi]

HandleBeacon(self, rt, rcount, timer, dir, dcount, beacon, now) ==
    IF beacon.checksum_ok
    THEN [routes |-> UpdateRoute(self, rt, rcount, timer, beacon.source, beacon.rssi).routes,
          route_count |-> UpdateRoute(self, rt, rcount, timer, beacon.source, beacon.rssi).route_count,
          services |-> UpdateService(dir, dcount, beacon.source, ST_VideoRelay, 0,
                          BeaconCapabilities(beacon), BeaconMetrics(beacon), now).services,
          service_count |-> UpdateService(dir, dcount, beacon.source, ST_VideoRelay, 0,
                          BeaconCapabilities(beacon), BeaconMetrics(beacon), now).service_count]
    ELSE [routes |-> rt, route_count |-> rcount, services |-> dir, service_count |-> dcount]

-----------------------------------------------------------------------------
(* Inputs of the forward's handlers: what the radio can hand to one loop   *)
(* iteration.  Packets stay within MAX_PACKET_SIZE, the wire format's      *)
(* limit; the largest payload that fits is among them.                     *)

UnknownId == <<1, 2, 3, 4, 5, 6>>

\* a later get_timestamp_ms() reading, beyond 32 bits
Times == {Time(1, 1000)}

PacketIds == {0, 7, U16 - 1}

RelayedIds == {7}

QosInputs ==
    { [min_bandwidth |-> 500, max_latency |-> 200, reliability |-> 80],
      [min_bandwidth |-> 500, max_latency |-> 50, reliability |-> 80] }

RequestInputs ==
    [service_type : {ST_VideoRelay, ST_Storage}, qos : QosInputs, expiry_time : {60}]

\* Every request, one cut short by a byte and one with an unknown type byte.
RequestPayloads ==
    {SerializeServiceRequest(r) : r \in RequestInputs}
        \cup {<<ST_VideoRelay, 1, 244, 0, 200, 80, 0>>}
        \cup {<<8, 1, 244, 0, 200, 80, 0, 0>>}

BeaconInputs ==
    [source : {ServerId}, battery_level : {80, 100}, rssi : {-70}, checksum_ok : {TRUE}]
        \cup [source : {ClientId}, battery_level : {100}, rssi : {-70},
              checksum_ok : BOOLEAN]

DataInputs ==
    {WirePacket(PT_Data, ClientId, d, 1, data) :
        d \in {ServerId, ForwardId, BROADCAST, UnknownId},
        data \in {<<1, 2, 3, 4>>, Zeros(MAX_PACKET_SIZE - DATA_HEADER_SIZE)}}

ServiceRequestInputs ==
    {WirePacket(PT_ServiceRequest, ClientId, ForwardId, id, data) :
        id \in PacketIds, data \in RequestPayloads}

PathEstablishPayloads ==
    LET full == PathData(ClientId, ST_VideoRelay,
                         [min_bandwidth |-> 500, max_latency |-> 200, reliability |-> 80])
    IN  {full, SubSeq(full, 1, PATH_ESTABLISH_MIN_LEN),
         SubSeq(full, 1, PATH_ESTABLISH_MIN_LEN - 1)}

PathEstablishInputs ==
    {WirePacket(PT_PathEstablish, UnknownId, d, id, data) :
        d \in {ForwardId, ServerId, UnknownId},
        id \in RelayedIds, data \in PathEstablishPayloads}

PathConfirmPayloads ==
    {ClientId \o <<st, h>> : st \in {PathStatus_Success, PathStatus_QosNotMet},
                            h \in {0, 1, U8 - 2, U8 - 1}}
        \cup {ClientId \o <<PathStatus_Success>>}
        \cup {ServerId \o <<PathStatus_Success, 1, 9>>}

PathConfirmInputs ==
    {WirePacket(PT_PathConfirm, ServerId, ForwardId, id, data) :
        id \in RelayedIds, data \in PathConfirmPayloads}

OtherInputs ==
    {WirePacket(t, ClientId, d, 1, <<1, 2, 3, 4>>) :
        t \in {PT_Ack, PT_ServiceResponse}, d \in {ServerId, ForwardId}}

-----------------------------------------------------------------------------
(* Spec: the forward's handlers, fed beacons and packets by the radio.     *)

\* forward_main's three timers, which start at 0
LoopTimersStart ==
    [beacon_timer |-> TimeZero, election_timer |-> TimeZero,
     directory_cleanup_timer |-> TimeZero]

NetIdle ==
    /\ packets = <<>>
    /\ beacons = <<>>
    /\ client = [pc |-> "off"]
    /\ forward_pc = "off"
    /\ election = [election_id |-> 0, state |-> "Idle", current_master |-> NoValue]
    /\ delivered = {}
    /\ peer_election = [election_id |-> 0, state |-> "Idle", current_master |-> NoValue]
    /\ timers = LoopTimersStart

Init ==
    /\ services = EmptyDirectory
    /\ service_count = 0
    /\ last_cleanup_time = TimeZero
    /\ routes = EmptyRoutes
    /\ route_count = 0
    /\ cleanup_timer = TimeZero
    /\ clock = TimeZero
    /\ overflow_checks \in BOOLEAN
    /\ panicked = FALSE
    /\ last = [op |-> "new"]
    /\ tx = <<>>
    /\ chain = <<>>
    /\ NetIdle

\* get_timestamp_ms() moves on: a later loop iteration, which has handled
\* nothing yet.
Tick ==
    \E now \in Times :
        /\ ~panicked
        /\ TimeLE(clock, now) /\ now # clock
        /\ clock' = now
        /\ last' = [op |-> "idle"]
        /\ tx' = <<>>
        /\ UNCHANGED <<dirVars, routeVars, overflow_checks, panicked, chain, netVars>>

\* receive_beacon returned `beacon`: handle_beacon runs.
RecvBeacon ==
    \E beacon \in BeaconInputs :
        /\ ~panicked
        /\ LET r == HandleBeacon(ForwardId, routes, route_count, cleanup_timer,
                                 services, service_count, beacon, clock)
           IN  /\ routes' = r.routes
               /\ route_count' = r.route_count
               /\ services' = r.services
               /\ service_count' = r.service_count
        /\ last' = [op |-> "handle_beacon", beacon |-> beacon]
        /\ tx' = <<>>
        /\ UNCHANGED <<last_cleanup_time, cleanup_timer, clock, overflow_checks,
                       panicked, chain, netVars>>

\* receive_data returned `packet`: the handler chosen by its type runs, with
\* `clock` the timestamp the iteration read.
Handle(packet) ==
    LET r == Dispatch(ForwardId, services, routes, packet, clock, overflow_checks)
    IN  /\ tx' = r.tx
        /\ panicked' = r.panic
        /\ last' = [op |-> HandlerName(packet), packet |-> packet]
        /\ UNCHANGED <<dirVars, routeVars, clock, overflow_checks, chain, netVars>>

RecvData ==
    \E packet \in DataInputs : ~panicked /\ Handle(packet)

RecvServiceRequest ==
    \E packet \in ServiceRequestInputs : ~panicked /\ Handle(packet)

RecvPathEstablish ==
    \E packet \in PathEstablishInputs : ~panicked /\ Handle(packet)

RecvPathConfirm ==
    \E packet \in PathConfirmInputs : ~panicked /\ Handle(packet)

RecvOther ==
    \E packet \in OtherInputs : ~panicked /\ Handle(packet)

Next ==
    \/ Tick
    \/ RecvBeacon
    \/ RecvData
    \/ RecvServiceRequest
    \/ RecvPathEstablish
    \/ RecvPathConfirm
    \/ RecvOther

Spec == Init /\ [][Next]_vars

-----------------------------------------------------------------------------
(* Properties of the handlers, checked under Spec.  A message is told apart *)
(* by its payload: a ServiceResponse is 11 bytes, a PathEstablish is the    *)
(* 20 bytes of establish_path, a PathConfirm is 8 bytes.                    *)

\* C37: the server named in a successful ServiceResponse, which is also the
\* node the following PathEstablish is addressed to, is never the client
\* that sent the request.
C37_ServerIsNotTheRequester ==
    (last.op = "handle_service_request" /\ Len(tx) = 2)
        => /\ DeserializeServiceResponse(tx[1].data).status = 0
           /\ DeserializeServiceResponse(tx[1].data).server_node_id # last.packet.source
           /\ tx[2].destination # last.packet.source

\* C2: for every ServiceRequest whose payload decodes, handle_service_request
\* sends exactly one ServiceResponse, to the packet's source and with the
\* request's packet id: status 0, the server found by find_best_service and
\* service id = the low 32 bits of the current time when there is a match;
\* status 1, the broadcast id and service id 0 when there is none.
C2_ExactlyOneServiceResponse ==
    (/\ last.op = "handle_service_request"
     /\ DeserializeServiceRequest(last.packet.data) # NoValue)
    => LET request == DeserializeServiceRequest(last.packet.data)
           best == FindBestService(services, request.service_type, request.qos)
           responses == {i \in 1..Len(tx) : Len(tx[i].data) = SERVICE_RESPONSE_LEN}
       IN  /\ ~panicked
           /\ Cardinality(responses) = 1
           /\ \A i \in responses :
                LET resp == DeserializeServiceResponse(tx[i].data)
                IN  /\ tx[i].source = ForwardId
                    /\ tx[i].destination = last.packet.source
                    /\ tx[i].packet_id = last.packet.packet_id
                    /\ IF best # 0
                       THEN /\ resp.status = 0
                            /\ resp.server_node_id = services[best].node_id
                            /\ resp.service_id = AsU32(clock)
                       ELSE /\ resp.status = 1
                            /\ resp.server_node_id = BROADCAST
                            /\ resp.service_id = 0

\* A matched request answered at a time whose value needs more than 32 bits.
C2_Witness ==
    /\ last.op = "handle_service_request"
    /\ DeserializeServiceRequest(last.packet.data) # NoValue
    /\ FindBestService(services,
                       DeserializeServiceRequest(last.packet.data).service_type,
                       DeserializeServiceRequest(last.packet.data).qos) # 0
    /\ service_count = 2
    /\ clock.hi > 0
    /\ Len(tx) = 2
    /\ DeserializeServiceResponse(tx[1].data).status = 0

\* C3: a PathEstablish is sent exactly when the directory has a match for the
\* request: then one PathEstablish follows the ServiceResponse, addressed to
\* the chosen server, with bytes 0..5 = the client's id, byte 6 = the service
\* type and bytes 7..11 = the QoS fields; without a match none is sent.
C3_PathEstablishIffMatch ==
    last.op = "handle_service_request"
    => LET request == DeserializeServiceRequest(last.packet.data)
           best == IF request = NoValue THEN 0
                   ELSE FindBestService(services, request.service_type, request.qos)
           establishes == {i \in 1..Len(tx) : Len(tx[i].data) >= PATH_ESTABLISH_MIN_LEN}
           responses == {i \in 1..Len(tx) : Len(tx[i].data) = SERVICE_RESPONSE_LEN}
       IN  IF best # 0
           THEN /\ Cardinality(establishes) = 1
                /\ \A i \in establishes :
                     /\ \A j \in responses : j < i
                     /\ tx[i].destination = services[best].node_id
                     /\ SubSeq(tx[i].data, 1, 6) = last.packet.source
                     /\ tx[i].data[7] = request.service_type
                     /\ SubSeq(tx[i].data, 8, 12) =
                            BE16(request.qos.min_bandwidth)
                                \o BE16(request.qos.max_latency)
                                \o <<request.qos.reliability>>
           ELSE establishes = {}

\* A matched request: the PathEstablish is the second packet sent.
C3_Witness ==
    /\ last.op = "handle_service_request"
    /\ Len(tx) = 2
    /\ Len(tx[1].data) = SERVICE_RESPONSE_LEN
    /\ Len(tx[2].data) = PATH_DATA_LEN
    /\ tx[2].destination = ServerId
    /\ SubSeq(tx[2].data, 1, 6) = ClientId

C5_HopCountPlusOne ==
    last.op = "handle_path_confirm"
    => IF Len(last.packet.data) >= PATH_CONFIRM_LEN
       THEN /\ ~panicked
            /\ Len(tx) = 1
            /\ tx[1].destination = SubSeq(last.packet.data, 1, 6)
            /\ tx[1].packet_id = last.packet.packet_id
            /\ tx[1].data[7] = last.packet.data[7]
            /\ tx[1].data[8] = last.packet.data[8] + 1
       ELSE tx = <<>>

\* C7: the forward relays only along a known route.  A Data packet addressed
\* neither to broadcast nor to the forward, and a PathEstablish not addressed
\* to the forward, is sent on once, from the forward's id to
\* get_next_hop(destination) with the original packet id and payload, when
\* the routing table has an entry for the destination, and is dropped when
\* it has none; a Data packet addressed to broadcast or to the forward is
\* not relayed; the routing table is the same after the handler as before.
C7_RelayOnlyAlongRoute ==
    [][LET op == last'.op
           relayed == op \in {"handle_data_packet", "handle_path_establish"}
           dst == last'.packet.destination
       IN  /\ (relayed /\ dst # ForwardId
                   /\ ~(op = "handle_data_packet" /\ IsBroadcast(dst)))
              => /\ ~panicked'
                 /\ IF FindRoute(routes, dst) # 0
                    THEN /\ Len(tx') = 1
                         /\ tx'[1].source = ForwardId
                         /\ tx'[1].destination = routes[FindRoute(routes, dst)].next_hop
                         /\ tx'[1].destination = GetNextHop(routes, dst).some
                         /\ tx'[1].packet_id = last'.packet.packet_id
                         /\ tx'[1].data = last'.packet.data
                    ELSE tx' = <<>>
           /\ (op = "handle_data_packet" /\ (IsBroadcast(dst) \/ dst = ForwardId))
              => tx' = <<>>
           /\ relayed => (routes' = routes /\ route_count' = route_count)
      ]_vars

\* The largest Data packet that fits, relayed along the route to the server.
C7_Witness ==
    /\ last.op = "handle_data_packet"
    /\ last.packet.destination = ServerId
    /\ Len(last.packet.data) = MAX_PACKET_SIZE - DATA_HEADER_SIZE
    /\ FindRoute(routes, ServerId) # 0
    /\ Len(tx) = 1
    /\ tx[1].destination = ServerId
    /\ tx[1].data = last.packet.data

-----------------------------------------------------------------------------
(* HandshakeSpec: the handlers applied in the order of the handshake, each  *)
(* to the message the one before it sent.  `chain` is the request followed  *)
(* by every message sent for it so far.                                     *)

\* The forward runs handle_service_request on a client's request.
HsServiceRequest ==
    \E packet \in ServiceRequestInputs :
        /\ ~panicked
        /\ LET r == HandleServiceRequest(ForwardId, services, packet, clock)
           IN  /\ tx' = r.tx
               /\ panicked' = r.panic
               /\ chain' = <<packet>> \o r.tx
        /\ last' = [op |-> "handle_service_request", packet |-> packet]
        /\ UNCHANGED <<dirVars, routeVars, clock, overflow_checks, netVars>>

\* The node the PathEstablish is addressed to runs handle_path_establish on it.
HsPathEstablish ==
    /\ ~panicked
    /\ Len(chain) = 3
    /\ LET r == HandlePathEstablish(chain[3].destination, EmptyRoutes, chain[3])
       IN  /\ tx' = r.tx
           /\ panicked' = r.panic
           /\ chain' = chain \o r.tx
    /\ last' = [op |-> "handle_path_establish", packet |-> chain[3]]
    /\ UNCHANGED <<dirVars, routeVars, clock, overflow_checks, netVars>>

\* The forward runs handle_path_confirm on that node's PathConfirm.
HsPathConfirm ==
    /\ ~panicked
    /\ Len(chain) = 4
    /\ LET r == HandlePathConfirm(ForwardId, chain[4], overflow_checks)
       IN  /\ tx' = r.tx
           /\ panicked' = r.panic
           /\ chain' = chain \o r.tx
    /\ last' = [op |-> "handle_path_confirm", packet |-> chain[4]]
    /\ UNCHANGED <<dirVars, routeVars, clock, overflow_checks, netVars>>

HsNext ==
    \/ Tick
    \/ RecvBeacon
    \/ HsServiceRequest
    \/ HsPathEstablish
    \/ HsPathConfirm

HandshakeSpec == Init /\ [][HsNext]_vars

-----------------------------------------------------------------------------
(* DirSpec: the service directory under any sequence of its operations.    *)

\* The (NodeId, service type) pairs the operations are called with.
DirKeys ==
    { [node_id |-> ServerId, service_type |-> ST_VideoRelay],
      [node_id |-> ClientId, service_type |-> ST_VideoRelay],
      [node_id |-> ServerId, service_type |-> ST_Storage] }

\* What update_service is called with: an idle provider with the default
\* capabilities and a fully loaded one that is faster and more reliable.
DirProfiles ==
    { [load |-> 0, capabilities |-> DefaultCapabilities, metrics |-> DefaultMetrics],
      [load |-> 100,
       capabilities |-> [max_bandwidth |-> 1000, min_latency |-> 40,
                         reliability |-> 95, battery_level |-> 100],
       metrics |-> DefaultMetrics] }

\* A later reading of the clock: past the sweep interval and the expiry time.
DirTimes == {Time(0, SERVICE_EXPIRY_MS + CLEANUP_INTERVAL_MS + 1)}

DirTick ==
    \E now \in DirTimes :
        /\ TimeLE(clock, now) /\ now # clock
        /\ clock' = now
        /\ last' = [op |-> "idle"]
        /\ UNCHANGED <<dirVars, routeVars, overflow_checks, panicked, tx, chain, netVars>>

DirUpdate ==
    \E key \in DirKeys, args \in DirProfiles :
        /\ LET r == UpdateService(services, service_count, key.node_id,
                                  key.service_type, args.load, args.capabilities,
                                  args.metrics, clock)
           IN  /\ services' = r.services
               /\ service_count' = r.service_count
               /\ last' = [op |-> "update_service", key |-> key, args |-> args,
                           now |-> clock, ok |-> r.ok]
        /\ UNCHANGED <<last_cleanup_time, routeVars, clock, overflow_checks,
                       panicked, tx, chain, netVars>>

DirRegister ==
    \E key \in DirKeys :
        /\ LET r == RegisterService(services, service_count, key.node_id,
                                    key.service_type)
           IN  /\ services' = r.services
               /\ service_count' = r.service_count
        /\ last' = [op |-> "register_service", key |-> key]
        /\ UNCHANGED <<last_cleanup_time, routeVars, clock, overflow_checks,
                       panicked, tx, chain, netVars>>

DirRemove ==
    \E key \in DirKeys :
        /\ LET r == RemoveService(services, service_count, key.node_id,
                                  key.service_type)
           IN  /\ services' = r.services
               /\ service_count' = r.service_count
        /\ last' = [op |-> "remove_service", key |-> key]
        /\ UNCHANGED <<last_cleanup_time, routeVars, clock, overflow_checks,
                       panicked, tx, chain, netVars>>

DirSweep ==
    /\ LET r == DirCleanup(services, service_count, last_cleanup_time, clock)
       IN  /\ services' = r.services
           /\ service_count' = r.service_count
           /\ last_cleanup_time' = r.last_cleanup_time
    /\ last' = [op |-> "cleanup"]
    /\ UNCHANGED <<routeVars, clock, overflow_checks, panicked, tx, chain, netVars>>

DirFindBest ==
    \E service_type \in {ST_VideoRelay, ST_Storage}, qos \in QosInputs :
        /\ last' = [op |-> "find_best_service", service_type |-> service_type,
                    qos |-> qos,
                    result |-> FindBestService(services, service_type, qos)]
        /\ UNCHANGED <<dirVars, routeVars, clock, overflow_checks, panicked, tx,
                       chain, netVars>>

DirNext ==
    \/ DirTick
    \/ DirUpdate
    \/ DirRegister
    \/ DirRemove
    \/ DirSweep
    \/ DirFindBest

DirSpec == Init /\ [][DirNext]_vars

\* C8: the entry find_best_service returns, if any, has the requested type
\* and meets the three hard bounds: max_bandwidth >= min_bandwidth,
\* min_latency <= max_latency, reliability >= the required reliability.
C8_BestMeetsHardBounds ==
    (last.op = "find_best_service" /\ last.result # 0)
    => /\ services[last.result] # NoEntry
       /\ services[last.result].service_type = last.service_type
       /\ services[last.result].capabilities.max_bandwidth >= last.qos.min_bandwidth
       /\ services[last.result].capabilities.min_latency <= last.qos.max_latency
       /\ services[last.result].capabilities.reliability >= last.qos.reliability

\* An entry is returned although an entry of the same type in a lower slot
\* breaks the latency bound.
C8_Witness ==
    /\ last.op = "find_best_service"
    /\ last.result > 1
    /\ \E i \in 1..(last.result - 1) :
          /\ services[i] # NoEntry
          /\ services[i].service_type = last.service_type
          /\ services[i].capabilities.min_latency > last.qos.max_latency

\* C9: find_best_service returns the entry of the requested type with the
\* maximum score when that maximum is positive, the one in the lowest slot
\* when several entries share the maximum, and none exactly when every entry
\* of the type scores 0 or there is no entry of the type.
C9_BestIsFirstMaximum ==
    last.op = "find_best_service"
    => LET candidates == {i \in 1..DIR_CAPACITY :
                            /\ services[i] # NoEntry
                            /\ services[i].service_type = last.service_type}
           positive == {i \in candidates : Score(services[i], last.qos) > 0}
       IN  IF positive = {}
           THEN last.result = 0
           ELSE /\ last.result \in positive
                /\ \A j \in candidates :
                     /\ Score(services[j], last.qos)
                            <= Score(services[last.result], last.qos)
                     /\ Score(services[j], last.qos)
                            = Score(services[last.result], last.qos)
                        => last.result <= j

\* Two entries of the requested type share the maximum score, an entry of
\* another type sits in a lower slot, and the lower of the two is returned.
C9_Witness ==
    /\ last.op = "find_best_service"
    /\ last.result > 1
    /\ services[1] # NoEntry
    /\ services[1].service_type # last.service_type
    /\ \E j \in (last.result + 1)..DIR_CAPACITY :
          /\ services[j] # NoEntry
          /\ services[j].service_type = last.service_type
          /\ Score(services[j], last.qos) = Score(services[last.result], last.qos)
          /\ Score(services[j], last.qos) > 0

\* C10: after any sequence of update_service, register_service,
\* remove_service and cleanup calls the directory holds at most one entry
\* per (NodeId, service type) pair, and update_service on a key already
\* present rewrites that entry in place (load, capabilities, metrics,
\* last-update time) and leaves service_count as it was.
C10_OneEntryPerKey ==
    /\ [](\A i, j \in 1..DIR_CAPACITY :
            (/\ i # j
             /\ services[i] # NoEntry
             /\ services[j] # NoEntry
             /\ services[i].node_id = services[j].node_id)
            => services[i].service_type # services[j].service_type)
    /\ [][LET index == FindServiceIndex(services, last'.key.node_id,
                                        last'.key.service_type)
          IN  (last'.op = "update_service" /\ index # 0)
              => /\ service_count' = service_count
                 /\ last'.ok
                 /\ \A j \in 1..DIR_CAPACITY : j # index => services'[j] = services[j]
                 /\ services'[index] =
                        [node_id |-> last'.key.node_id,
                         service_type |-> last'.key.service_type,
                         load |-> last'.args.load,
                         capabilities |-> last'.args.capabilities,
                         metrics |-> last'.args.metrics,
                         last_update_time |-> last'.now]
         ]_vars

\* An update of a key already present, in the second slot, changing its
\* load at a later time, with another entry beside it.
C10_Witness ==
    /\ last.op = "update_service"
    /\ service_count = 2
    /\ services[1] # NoEntry
    /\ services[2] # NoEntry
    /\ services[2].node_id = last.key.node_id
    /\ services[2].service_type = last.key.service_type
    /\ services[2].load = 100
    /\ services[2].last_update_time # TimeZero
    /\ services[1].last_update_time = TimeZero

-----------------------------------------------------------------------------
(* common/hal/simulator.rs: the shared bus.  A queue entry is the message   *)
(* or beacon together with the id of the node whose radio pushed it.        *)

\* A bus that hands a node its own transmissions too (not what the code does).
FirstFor_OwnIncluded(queue, dest) ==
    IF queue = <<>> THEN 0 ELSE 1

\* get_packet / get_beacon: the first entry that `dest` did not push itself,
\* 0 when there is none.  Every receive buffer holds a whole packet.
FirstFor(queue, dest) ==
    LET hits == {i \in 1..Len(queue) : queue[i].from # dest}
    IN  IF hits = {} THEN 0 ELSE CHOOSE i \in hits : \A j \in hits : i <= j

RemoveAt(queue, i) == SubSeq(queue, 1, i - 1) \o SubSeq(queue, i + 1, Len(queue))

\* send_data / send_beacon, for each message of `msgs` in turn
Push(queue, from, msgs) ==
    queue \o [i \in 1..Len(msgs) |-> [from |-> from, msg |-> msgs[i]]]

\* receive_data / receive_beacon by `dest`
Receive(queue, dest) ==
    IF FirstFor(queue, dest) = 0 THEN [msg |-> NoValue, queue |-> queue]
    ELSE [msg |-> [some |-> queue[FirstFor(queue, dest)].msg],
          queue |-> RemoveAt(queue, FirstFor(queue, dest))]

Delivery(node, r) ==
    IF r.msg = NoValue THEN {} ELSE {[node |-> node, packet |-> r.msg.some]}

-----------------------------------------------------------------------------
(* forward/directory/election.rs *)

GetPriority(self) == self[1]

ElectionStartMsg(self, id) ==
    NewDataPacket(self, BROADCAST, id,
                  <<ELECTION_START>> \o BE16(id) \o <<GetPriority(self)>>)

ElectionResultMsg(self, id, master) ==
    NewDataPacket(self, BROADCAST, id,
                  <<ELECTION_RESULT>> \o BE16(id) \o master \o <<0>>)

\* A start that forgets the master of the previous election (not what the
\* code does).
BeginElection_ResetsMaster(self, el) ==
    [election |-> [el EXCEPT !.election_id = (el.election_id + 1) % U16,
                             !.state = "Electing",
                             !.current_master = NoValue],
     tx |-> <<ElectionStartMsg(self, (el.election_id + 1) % U16)>>]

\* initiate_election up to its collection wait: a new election id, state
\* Electing, the ElectionStart broadcast.
BeginElection(self, el) ==
    [election |-> [el EXCEPT !.election_id = (el.election_id + 1) % U16,
                             !.state = "Electing"],
     tx |-> <<ElectionStartMsg(self, (el.election_id + 1) % U16)>>]

\* An election that is settled by the highest priority heard in a response,
\* which the node does not record (not what the code does): the node stays
\* without a master.
FinishElection_AwaitTally(self, el) ==
    [election |-> [el EXCEPT !.state = "Completed"],
     tx |-> <<>>]

\* finish_election: the node declares itself master and broadcasts the result.
FinishElection(self, el) ==
    [election |-> [el EXCEPT !.current_master = [some |-> self],
                             !.state = "Completed"],
     tx |-> <<ElectionResultMsg(self, el.election_id, self)>>]

\* initiate_election as a whole: the start, the wait and finish_election.
InitiateElection(self, el) ==
    [election |-> FinishElection(self, BeginElection(self, el).election).election,
     tx |-> BeginElection(self, el).tx
                \o FinishElection(self, BeginElection(self, el).election).tx]

\* A node that yields to a sender of its own priority (not what the code does).
StartDecision_TieYields(self, el, packet) ==
    IF Len(packet.data) < ELECTION_START_LEN THEN "ignore"
    ELSE IF packet.data[4] >= GetPriority(self) THEN "respond"
    ELSE IF el.state # "Electing" THEN "challenge"
    ELSE "ignore"

\* What handle_election_start does with an ElectionStart.
StartDecision(self, el, packet) ==
    IF Len(packet.data) < ELECTION_START_LEN THEN "ignore"
    ELSE IF packet.data[4] > GetPriority(self) THEN "respond"
    ELSE IF el.state # "Electing" THEN "challenge"
    ELSE "ignore"

ElectionResponseMsg(self, packet) ==
    NewDataPacket(self, packet.source, FromBE16(packet.data[2], packet.data[3]),
                  <<ELECTION_RESPONSE, packet.data[2], packet.data[3],
                    GetPriority(self)>>)

HandleElectionStart(self, el, packet) ==
    IF StartDecision(self, el, packet) = "respond"
    THEN [election |-> el, tx |-> <<ElectionResponseMsg(self, packet)>>]
    ELSE IF StartDecision(self, el, packet) = "challenge"
    THEN InitiateElection(self, el)
    ELSE [election |-> el, tx |-> <<>>]

\* handle_election_response gets past its two returns: the response is
\* taken as belonging to the election in progress.
AcceptsResponse(el, packet) ==
    /\ Len(packet.data) >= ELECTION_START_LEN
    /\ el.state = "Electing"
    /\ FromBE16(packet.data[2], packet.data[3]) = el.election_id

\* A handler that takes any response as a vote for the sender (not what the
\* code does).
HandleElectionResponse_Concludes(self, el, packet) ==
    [election |-> [el EXCEPT !.state = "Completed",
                             !.current_master = [some |-> packet.source]],
     tx |-> <<>>]

\* handle_election_response: the response is logged, nothing is kept.
HandleElectionResponse(self, el, packet) == [election |-> el, tx |-> <<>>]

\* A node that drops the result of an election older than its own (not what
\* the code does).
HandleElectionResult_IgnoresStale(self, el, packet) ==
    IF Len(packet.data) < ELECTION_RESULT_LEN THEN [election |-> el, tx |-> <<>>]
    ELSE IF FromBE16(packet.data[2], packet.data[3]) < el.election_id
    THEN [election |-> el, tx |-> <<>>]
    ELSE [election |-> [el EXCEPT !.state = "Completed",
                                  !.current_master = [some |-> SubSeq(packet.data, 4, 9)]],
          tx |-> <<>>]

HandleElectionResult(self, el, packet) ==
    IF Len(packet.data) < ELECTION_RESULT_LEN THEN [election |-> el, tx |-> <<>>]
    ELSE [election |-> [el EXCEPT !.state = "Completed",
                                  !.current_master = [some |-> SubSeq(packet.data, 4, 9)]],
          tx |-> <<>>]

\* process_messages, for the packet its receive_data returned: the first
\* payload byte alone decides what the packet is taken for.
ProcessMessages(self, el, packet) ==
    IF packet.data = <<>> THEN [election |-> el, tx |-> <<>>]
    ELSE IF packet.data[1] = ELECTION_START THEN HandleElectionStart(self, el, packet)
    ELSE IF packet.data[1] = ELECTION_RESPONSE
    THEN HandleElectionResponse(self, el, packet)
    ELSE IF packet.data[1] = ELECTION_RESULT THEN HandleElectionResult(self, el, packet)
    ELSE [election |-> el, tx |-> <<>>]

-----------------------------------------------------------------------------
(* server/src/main.rs and server/src/api/cli.rs.  The circular buffer of    *)
(* sensor records is not part of the state: a query is answered with any    *)
(* of the contents it can hold for the asking node.                         *)

\* get_data_for_node: no record, or one record of 20 bytes (node id,
\* timestamp, temperature, humidity, pressure).
StoredData(node) == {<<>>, node \o Zeros(RECORD_LEN - 6)}

\* add_command followed by the process_commands of the same loop iteration:
\* the answers the command processor can send for the command bytes `cmd`.
CommandReplies(self, source, cmd) ==
    IF cmd = <<>> \/ cmd[1] < CMD_Query \/ cmd[1] > CMD_Reboot THEN {Sent(<<>>)}
    ELSE IF cmd[1] = CMD_Query
    THEN {SendNew(self, source, 0, <<CMD_Query>> \o d) : d \in StoredData(source)}
    ELSE {SendNew(self, source, 0, <<cmd[1], 1>>)}

\* handle_data_packet of the server: the first payload byte selects sensor
\* data, a command or a query; the header's type and destination are not read.
ServerHandleDataPacket(self, packet) ==
    IF packet.data = <<>> THEN {Sent(<<>>)}
    ELSE IF packet.data[1] = SRV_COMMAND
    THEN CommandReplies(self, packet.source, SubSeq(packet.data, 2, Len(packet.data)))
    ELSE IF packet.data[1] = SRV_QUERY
    THEN {SendNew(self, packet.source, 0, d) : d \in StoredData(packet.source)}
    ELSE {Sent(<<>>)}

-----------------------------------------------------------------------------
(* client/src/service_client.rs and client/src/main.rs *)

ClientQos == [min_bandwidth |-> 500, max_latency |-> 200, reliability |-> 80]

ClientRequest ==
    [service_type |-> ST_VideoRelay, qos |-> ClientQos, expiry_time |-> 60]

ClientStart ==
    [pc |-> "request", retry_count |-> 0, endpoint |-> NoValue,
     path_established |-> FALSE, data_send_timer |-> TimeZero]

\* timestamp % 10000 for a two-word timestamp (2^32 % 10000 = 7296)
FrameNumber(now) ==
    (((now.hi % FRAME_MODULUS) * 7296) + (now.lo % FRAME_MODULUS)) % FRAME_MODULUS

\* send_video_data: 21 bytes, the frame number as the packet id.
VideoData(endpoint, now) ==
    <<VIDEO_DATA_TAG>> \o BE32(endpoint.service_id) \o BE32(FrameNumber(now))
        \o Zeros(VIDEO_DATA_LEN - 9)

\* request_service up to and including send_data.
ClientSendRequest(c, forward_id, queue) ==
    [client |-> [c EXCEPT !.pc = "wait"],
     packets |-> Push(queue, ClientId,
                      <<NewDataPacket(ClientId, forward_id, 0,
                                      SerializeServiceRequest(ClientRequest))>>),
     got |-> {}]

\* A packet the wait loop takes for the answer: from the forward, typed
\* ServiceResponse, and decodable.
IsServiceAnswer(m, forward_id) ==
    /\ m # NoValue
    /\ m.some.source = forward_id
    /\ m.some.packet_type = PT_ServiceResponse
    /\ DeserializeServiceResponse(m.some.data) # NoValue

\* One iteration of the wait loop of request_service.
ClientAwaitResponse(c, forward_id, queue) ==
    LET r == Receive(queue, ClientId)
    IN  [client |->
            IF IsServiceAnswer(r.msg, forward_id)
            THEN IF DeserializeServiceResponse(r.msg.some.data).status = 0
                 THEN [c EXCEPT !.pc = "loop",
                         !.endpoint = [some |->
                            [service_id |-> DeserializeServiceResponse(r.msg.some.data).service_id,
                             server_id |-> DeserializeServiceResponse(r.msg.some.data).server_node_id]]]
                 ELSE [c EXCEPT !.pc = "exit"]
            ELSE IF c.retry_count + 1 < MAX_RETRIES
                 THEN [c EXCEPT !.retry_count = c.retry_count + 1]
                 ELSE [c EXCEPT !.retry_count = MAX_RETRIES, !.pc = "exit"],
         packets |-> r.queue,
         got |-> Delivery(ClientId, r)]

\* A client that takes any PathConfirm of 8 bytes for a success (not what
\* the code does).
IsPathSuccess_AnyStatus(m) ==
    /\ m # NoValue
    /\ m.some.packet_type = PT_PathConfirm
    /\ Len(m.some.data) >= PATH_CONFIRM_LEN

IsPathSuccess(m) ==
    /\ m # NoValue
    /\ m.some.packet_type = PT_PathConfirm
    /\ Len(m.some.data) >= PATH_CONFIRM_LEN
    /\ m.some.data[7] = PathStatus_Success

\* One iteration of the main loop of client_main; path_timer stays 0.
ClientLoop(c, queue, now) ==
    LET r == Receive(queue, ClientId)
        established == c.path_established \/ IsPathSuccess(r.msg)
        due == Elapsed(now, c.data_send_timer) > VIDEO_INTERVAL_MS
    IN  [client |->
            IF established
            THEN [c EXCEPT !.path_established = TRUE,
                           !.data_send_timer = IF due THEN now ELSE c.data_send_timer]
            ELSE IF Elapsed(now, TimeZero) > PATH_TIMEOUT_MS
                 THEN [c EXCEPT !.pc = "exit"]
                 ELSE c,
         packets |->
            IF established /\ due
            THEN Push(r.queue, ClientId,
                      <<NewDataPacket(ClientId, c.endpoint.some.server_id,
                                      FrameNumber(now) % U16,
                                      VideoData(c.endpoint.some, now))>>)
            ELSE r.queue,
         got |-> Delivery(ClientId, r)]

\* The client's next step, by its position in client_main.
ClientNext(c, forward_id, queue, now) ==
    IF c.pc = "request" THEN ClientSendRequest(c, forward_id, queue)
    ELSE IF c.pc = "wait" THEN ClientAwaitResponse(c, forward_id, queue)
    ELSE ClientLoop(c, queue, now)

-----------------------------------------------------------------------------
(* NetSpec: the client, the forward and the server on one bus, from the     *)
(* moment the client has found the forward and is about to call             *)
(* request_service.  The forward has handled the server's first beacon, so  *)
(* its directory and its routing table hold the server.  The clock stands   *)
(* still: the specification covers the seconds the request is waited for,  *)
(* in which no periodic beacon, election or sweep falls due; a beacon sent  *)
(* just before may still be on the bus.                                     *)

NetClock == Time(0, SERVER_BEACON_INTERVAL_MS + 1000)

\* Beacon::new as send_beacon of the server and send_discovery_beacon of the
\* client build it: full battery, a checksum that verifies.
BusBeacon(node) ==
    [source |-> node, battery_level |-> 100, rssi |-> -70, checksum_ok |-> TRUE]

PendingBeacons ==
    {<<>>, Push(<<>>, ServerId, <<BusBeacon(ServerId)>>),
     Push(<<>>, ClientId, <<BusBeacon(ClientId)>>)}

NetInit ==
    /\ LET r == HandleBeacon(ForwardId, EmptyRoutes, 0, TimeZero, EmptyDirectory, 0,
                             BusBeacon(ServerId), NetClock)
       IN  /\ services = r.services
           /\ service_count = r.service_count
           /\ routes = r.routes
           /\ route_count = r.route_count
    /\ last_cleanup_time = NetClock
    /\ cleanup_timer = TimeZero
    /\ clock = NetClock
    /\ overflow_checks \in BOOLEAN
    /\ panicked = FALSE
    /\ last = [op |-> "new"]
    /\ tx = <<>>
    /\ chain = <<>>
    /\ packets = <<>>
    /\ beacons \in PendingBeacons
    /\ client = ClientStart
    /\ forward_pc = "recv"
    /\ election = [election_id |-> 0, state |-> "Idle", current_master |-> NoValue]
    /\ delivered = {}
    /\ peer_election = [election_id |-> 0, state |-> "Idle", current_master |-> NoValue]
    /\ timers = LoopTimersStart

\* The client thread runs its next step; it has none once client_main returned.
ClientStep ==
    /\ client.pc # "exit"
    /\ LET r == ClientNext(client, ForwardId, packets, clock)
       IN  /\ client' = r.client
           /\ packets' = r.packets
           /\ delivered' = delivered \cup r.got
    /\ last' = [op |-> "client"]
    /\ UNCHANGED <<dirVars, routeVars, clock, overflow_checks, panicked, tx, chain,
                   beacons, forward_pc, election, peer_election, timers>>

\* forward_main: receive_data and the handler chosen by the header's type.
FwdRecv ==
    /\ ~panicked
    /\ forward_pc = "recv"
    /\ LET r == Receive(packets, ForwardId)
           d == IF r.msg = NoValue THEN Sent(<<>>)
                ELSE Dispatch(ForwardId, services, routes, r.msg.some, clock,
                              overflow_checks)
       IN  /\ packets' = Push(r.queue, ForwardId, d.tx)
           /\ panicked' = d.panic
           /\ delivered' = delivered \cup Delivery(ForwardId, r)
    /\ forward_pc' = "beacon"
    /\ last' = [op |-> "forward"]
    /\ UNCHANGED <<dirVars, routeVars, clock, overflow_checks, tx, chain, beacons,
                   client, election, peer_election, timers>>

\* forward_main: receive_beacon and handle_beacon.
FwdBeacon ==
    /\ ~panicked
    /\ forward_pc = "beacon"
    /\ LET r == Receive(beacons, ForwardId)
           h == IF r.msg = NoValue
                THEN [routes |-> routes, route_count |-> route_count,
                      services |-> services, service_count |-> service_count]
                ELSE HandleBeacon(ForwardId, routes, route_count, cleanup_timer,
                                  services, service_count, r.msg.some, clock)
       IN  /\ beacons' = r.queue
           /\ routes' = h.routes
           /\ route_count' = h.route_count
           /\ services' = h.services
           /\ service_count' = h.service_count
    /\ forward_pc' = "election"
    /\ last' = [op |-> "forward"]
    /\ UNCHANGED <<last_cleanup_time, cleanup_timer, clock, overflow_checks, panicked,
                   tx, chain, packets, client, election, delivered, peer_election, timers>>

\* forward_main: election.process_messages, which receives a packet of its own.
FwdElection ==
    /\ ~panicked
    /\ forward_pc = "election"
    /\ LET r == Receive(packets, ForwardId)
           e == IF r.msg = NoValue THEN [election |-> election, tx |-> <<>>]
                ELSE ProcessMessages(ForwardId, election, r.msg.some)
       IN  /\ packets' = Push(r.queue, ForwardId, e.tx)
           /\ election' = e.election
           /\ delivered' = delivered \cup Delivery(ForwardId, r)
    /\ forward_pc' = "recv"
    /\ last' = [op |-> "forward"]
    /\ UNCHANGED <<dirVars, routeVars, clock, overflow_checks, panicked, tx, chain,
                   beacons, client, peer_election, timers>>

\* server_main: receive_data, handle_data_packet and process_commands.
SrvStep ==
    LET r == Receive(packets, ServerId)
    IN  \E d \in (IF r.msg = NoValue THEN {Sent(<<>>)}
                  ELSE ServerHandleDataPacket(ServerId, r.msg.some)) :
            /\ packets' = Push(r.queue, ServerId, d.tx)
            /\ delivered' = delivered \cup Delivery(ServerId, r)
            /\ last' = [op |-> "server"]
            /\ UNCHANGED <<dirVars, routeVars, clock, overflow_checks, panicked, tx,
                           chain, beacons, client, forward_pc, election, peer_election, timers>>

NetNext ==
    \/ ClientStep
    \/ FwdRecv
    \/ FwdBeacon
    \/ FwdElection
    \/ SrvStep

\* Every thread keeps running: each node's loop is taken again and again.
NetSpec ==
    /\ NetInit
    /\ [][NetNext]_vars
    /\ WF_vars(ClientStep)
    /\ WF_vars(FwdRecv \/ FwdBeacon \/ FwdElection)
    /\ WF_vars(SrvStep)

\* C33: retrieval respects addressing: what receive_data returned to a node
\* is addressed to that node or to the broadcast id.
C33_DeliveredToAddressee ==
    \A d \in delivered : d.packet.destination \in {d.node, BROADCAST}

\* The four deliveries of a completed handshake, each told by its payload.
GotServiceResponse ==
    \E d \in delivered :
        /\ d.node = ClientId
        /\ Len(d.packet.data) = SERVICE_RESPONSE_LEN
        /\ DeserializeServiceResponse(d.packet.data).status = 0
        /\ DeserializeServiceResponse(d.packet.data).server_node_id = ServerId

GotPathEstablish ==
    \E d \in delivered :
        /\ d.node = ServerId
        /\ Len(d.packet.data) = PATH_DATA_LEN
        /\ SubSeq(d.packet.data, 1, 6) = ClientId

GotPathConfirm(node, hops) ==
    \E d \in delivered :
        /\ d.node = node
        /\ Len(d.packet.data) = PATH_CONFIRM_LEN
        /\ d.packet.data[7] = PathStatus_Success
        /\ d.packet.data[8] = hops

\* C1: once the client has sent its ServiceRequest, eventually the client has
\* received a ServiceResponse with status 0 naming the server, the server has
\* received a PathEstablish carrying the client's id, the forward has received
\* a PathConfirm with status Success and hop count 1, and the client has
\* received a PathConfirm with status Success and hop count 2.
C1_HandshakeCompletes ==
    (client.pc # "request") ~>
        (/\ GotServiceResponse
         /\ GotPathEstablish
         /\ GotPathConfirm(ForwardId, 1)
         /\ GotPathConfirm(ClientId, 2))

-----------------------------------------------------------------------------
(* FullDirSpec: the service directory with all but a few of its 32 slots    *)
(* taken.  The directory starts as register_service leaves it after being   *)
(* called for DIR_CAPACITY - FreeSlots distinct sensor nodes.               *)

\* slots left free at the start
FreeSlots == 1

FillerId(i) == <<i, 0, 0, 0, 0, 0>>

\* The directory after register_service for the sensor nodes 1..n: each call
\* finds no entry for its key and takes the lowest free slot.
Registered(n) ==
    [services |-> [i \in 1..DIR_CAPACITY |->
                      IF i <= n
                      THEN NewServiceEntry(FillerId(i), ST_SensorCollection, 0,
                                           DefaultCapabilities, DefaultMetrics, TimeZero)
                      ELSE NoEntry],
     service_count |-> n]

\* The keys update_service and remove_service are called with: new ones, more
\* of them than there are free slots, and one of the registered ones.
FullDirKeys ==
    DirKeys \cup { [node_id |-> FillerId(1), service_type |-> ST_SensorCollection] }

FullDirInit ==
    /\ services = Registered(DIR_CAPACITY - FreeSlots).services
    /\ service_count = Registered(DIR_CAPACITY - FreeSlots).service_count
    /\ last_cleanup_time = TimeZero
    /\ routes = EmptyRoutes
    /\ route_count = 0
    /\ cleanup_timer = TimeZero
    /\ clock = Time(0, 1000)
    /\ overflow_checks \in BOOLEAN
    /\ panicked = FALSE
    /\ last = [op |-> "new"]
    /\ tx = <<>>
    /\ chain = <<>>
    /\ NetIdle

FullDirUpdate ==
    \E key \in FullDirKeys, args \in DirProfiles :
        /\ LET r == UpdateService(services, service_count, key.node_id,
                                  key.service_type, args.load, args.capabilities,
                                  args.metrics, clock)
           IN  /\ services' = r.services
               /\ service_count' = r.service_count
               /\ last' = [op |-> "update_service", key |-> key, args |-> args,
                           now |-> clock, ok |-> r.ok]
        /\ UNCHANGED <<last_cleanup_time, routeVars, clock, overflow_checks,
                       panicked, tx, chain, netVars>>

FullDirRemove ==
    \E key \in FullDirKeys :
        /\ LET r == RemoveService(services, service_count, key.node_id,
                                  key.service_type)
           IN  /\ services' = r.services
               /\ service_count' = r.service_count
        /\ last' = [op |-> "remove_service", key |-> key]
        /\ UNCHANGED <<last_cleanup_time, routeVars, clock, overflow_checks,
                       panicked, tx, chain, netVars>>

FullDirNext ==
    \/ FullDirUpdate
    \/ FullDirRemove

FullDirSpec == FullDirInit /\ [][FullDirNext]_vars

DirIsFull(dir) == \A i \in 1..DIR_CAPACITY : dir[i] # NoEntry

\* C11: with all 32 slots occupied, update_service with a key that is not
\* present returns false and leaves every entry and service_count unchanged;
\* with a key that is present it rewrites that entry and returns true; and
\* whenever a slot is free update_service returns true.
C11_FullDirectoryRejectsNewKeys ==
    [][LET index == FindServiceIndex(services, last'.key.node_id,
                                     last'.key.service_type)
       IN  last'.op = "update_service"
           => /\ (DirIsFull(services) /\ index = 0)
                    => /\ ~last'.ok
                       /\ services' = services
                       /\ service_count' = service_count
              /\ (DirIsFull(services) /\ index # 0)
                    => /\ last'.ok
                       /\ service_count' = service_count
                       /\ services'[index].load = last'.args.load
                       /\ services'[index].capabilities = last'.args.capabilities
                       /\ services'[index].last_update_time = last'.now
                       /\ services'[index].node_id = last'.key.node_id
                       /\ services'[index].service_type = last'.key.service_type
                       /\ \A j \in 1..DIR_CAPACITY :
                            j # index => services'[j] = services[j]
              /\ ~DirIsFull(services) => last'.ok
      ]_vars

\* A full directory has just turned a new key away.
C11_Witness ==
    /\ last.op = "update_service"
    /\ ~last.ok
    /\ service_count = DIR_CAPACITY
    /\ DirIsFull(services)
    /\ FindServiceIndex(services, last.key.node_id, last.key.service_type) = 0

-----------------------------------------------------------------------------
(* SweepSpec: cleanup of the service directory around its two time limits,  *)
(* the 30 s between sweeps and the 5 min an entry may stay idle.  The clock *)
(* only moves forward, as get_timestamp_ms does.                            *)

SweepTimes ==
    {Time(0, t) : t \in {CLEANUP_INTERVAL_MS - 1, CLEANUP_INTERVAL_MS,
                         SERVICE_EXPIRY_MS, SERVICE_EXPIRY_MS + 1,
                         SERVICE_EXPIRY_MS + CLEANUP_INTERVAL_MS,
                         SERVICE_EXPIRY_MS + CLEANUP_INTERVAL_MS + 1}}

SweepKeys ==
    { [node_id |-> ServerId, service_type |-> ST_VideoRelay],
      [node_id |-> ClientId, service_type |-> ST_VideoRelay] }

SweepTick ==
    \E now \in SweepTimes :
        /\ TimeLE(clock, now) /\ now # clock
        /\ clock' = now
        /\ last' = [op |-> "idle"]
        /\ UNCHANGED <<dirVars, routeVars, overflow_checks, panicked, tx, chain, netVars>>

\* update_service with the current time
SweepUpdate ==
    \E key \in SweepKeys :
        /\ LET r == UpdateService(services, service_count, key.node_id,
                                  key.service_type, 0, DefaultCapabilities,
                                  DefaultMetrics, clock)
           IN  /\ services' = r.services
               /\ service_count' = r.service_count
        /\ last' = [op |-> "update_service"]
        /\ UNCHANGED <<last_cleanup_time, routeVars, clock, overflow_checks,
                       panicked, tx, chain, netVars>>

\* register_service, which stamps the entry with time 0
SweepRegister ==
    \E key \in SweepKeys :
        /\ LET r == RegisterService(services, service_count, key.node_id,
                                    key.service_type)
           IN  /\ services' = r.services
               /\ service_count' = r.service_count
        /\ last' = [op |-> "register_service"]
        /\ UNCHANGED <<last_cleanup_time, routeVars, clock, overflow_checks,
                       panicked, tx, chain, netVars>>

SweepCleanup ==
    /\ LET r == DirCleanup(services, service_count, last_cleanup_time, clock)
       IN  /\ services' = r.services
           /\ service_count' = r.service_count
           /\ last_cleanup_time' = r.last_cleanup_time
    /\ last' = [op |-> "cleanup"]
    /\ UNCHANGED <<routeVars, clock, overflow_checks, panicked, tx, chain, netVars>>

SweepNext ==
    \/ SweepTick
    \/ SweepUpdate
    \/ SweepRegister
    \/ SweepCleanup

SweepSpec == Init /\ [][SweepNext]_vars

\* C12: cleanup(now) changes nothing when fewer than 30000 ms have passed
\* since the last sweep that ran; otherwise it removes exactly the entries
\* with now - last_update_time > 300000 ms, lowers service_count by their
\* number, leaves every other entry as it was and records now as the time of
\* the last sweep.
C12_CleanupThrottledAndExact ==
    [][last'.op = "cleanup"
       => IF Elapsed(clock, last_cleanup_time) < CLEANUP_INTERVAL_MS
          THEN /\ services' = services
               /\ service_count' = service_count
               /\ last_cleanup_time' = last_cleanup_time
          ELSE /\ \A i \in 1..DIR_CAPACITY :
                    IF /\ services[i] # NoEntry
                       /\ Elapsed(clock, services[i].last_update_time) > SERVICE_EXPIRY_MS
                    THEN services'[i] = NoEntry
                    ELSE services'[i] = services[i]
               /\ service_count' = service_count - Cardinality(
                    {i \in 1..DIR_CAPACITY :
                        /\ services[i] # NoEntry
                        /\ Elapsed(clock, services[i].last_update_time)
                              > SERVICE_EXPIRY_MS})
               /\ last_cleanup_time' = clock
      ]_vars

\* A sweep ran 29999 ms after the previous one and left an entry in place
\* that has been idle for longer than 5 minutes.
C12_Witness ==
    /\ last.op = "cleanup"
    /\ last_cleanup_time = Time(0, SERVICE_EXPIRY_MS + 1)
    /\ clock = Time(0, SERVICE_EXPIRY_MS + CLEANUP_INTERVAL_MS)
    /\ service_count = 2
    /\ services[1] # NoEntry
    /\ services[1].last_update_time = TimeZero
    /\ services[2] # NoEntry
    /\ services[2].last_update_time = clock

-----------------------------------------------------------------------------
(* RouteSpec: the routing table of the forward under any sequence of its    *)
(* operations, starting with all but a few of its 32 slots taken by routes  *)
(* learnt from beacons.  cleanup_timer, the stamp update_route gives an     *)
(* entry, is set by ForwardingEngine::new and by nothing else.              *)

\* slots left free at the start
FreeRouteSlots == 1

\* The destinations the operations are called with: the node itself, new
\* ones (more of them than there are free slots) and one learnt at the start.
RouteDests == {ForwardId, ServerId, ClientId, UnknownId, FillerId(1)}

RouteMetrics == {-60}

\* Readings of the clock at and just past the age at which a route expires.
RouteTimes == {Time(0, ROUTE_EXPIRY_MS), Time(0, ROUTE_EXPIRY_MS + 1)}

\* The table after update_route for the nodes 1..n.
Learnt(n) ==
    [routes |-> [i \in 1..ROUTE_CAPACITY |->
                    IF i <= n THEN NewRouteEntry(FillerId(i), -70, TimeZero) ELSE NoEntry],
     route_count |-> n]

RouteInit ==
    /\ services = EmptyDirectory
    /\ service_count = 0
    /\ last_cleanup_time = TimeZero
    /\ routes = Learnt(ROUTE_CAPACITY - FreeRouteSlots).routes
    /\ route_count = Learnt(ROUTE_CAPACITY - FreeRouteSlots).route_count
    /\ cleanup_timer = TimeZero
    /\ clock = TimeZero
    /\ overflow_checks \in BOOLEAN
    /\ panicked = FALSE
    /\ last = [op |-> "new"]
    /\ tx = <<>>
    /\ chain = <<>>
    /\ NetIdle

RouteIsFull(rt) == \A i \in 1..ROUTE_CAPACITY : rt[i] # NoEntry

RouteTick ==
    \E now \in RouteTimes :
        /\ TimeLE(clock, now) /\ now # clock
        /\ clock' = now
        /\ last' = [op |-> "idle"]
        /\ UNCHANGED <<dirVars, routeVars, overflow_checks, panicked, tx, chain, netVars>>

RouteUpdate ==
    \E destination \in RouteDests, metric \in RouteMetrics :
        /\ LET r == UpdateRoute(ForwardId, routes, route_count, cleanup_timer,
                                destination, metric)
           IN  /\ routes' = r.routes
               /\ route_count' = r.route_count
        /\ last' = [op |-> "update_route", destination |-> destination,
                    metric |-> metric, index |-> FindRoute(routes, destination),
                    full |-> RouteIsFull(routes)]
        /\ UNCHANGED <<dirVars, cleanup_timer, clock, overflow_checks, panicked, tx,
                       chain, netVars>>

RouteRemove ==
    \E destination \in RouteDests :
        /\ LET r == RemoveRoute(routes, route_count, destination)
           IN  /\ routes' = r.routes
               /\ route_count' = r.route_count
        /\ last' = [op |-> "remove_route", destination |-> destination]
        /\ UNCHANGED <<dirVars, cleanup_timer, clock, overflow_checks, panicked, tx,
                       chain, netVars>>

RouteClear ==
    /\ routes' = ClearRoutes.routes
    /\ route_count' = ClearRoutes.route_count
    /\ last' = [op |-> "clear"]
    /\ UNCHANGED <<dirVars, cleanup_timer, clock, overflow_checks, panicked, tx,
                   chain, netVars>>

\* cleanup(t) with the current time
RouteSweep ==
    /\ LET r == RouteCleanup(routes, route_count, clock)
       IN  /\ routes' = r.routes
           /\ route_count' = r.route_count
           /\ last' = [op |-> "cleanup", removed |-> route_count - r.route_count]
    /\ UNCHANGED <<dirVars, cleanup_timer, clock, overflow_checks, panicked, tx,
                   chain, netVars>>

RouteNext ==
    \/ RouteTick
    \/ RouteUpdate
    \/ RouteRemove
    \/ RouteClear
    \/ RouteSweep

RouteSpec == RouteInit /\ [][RouteNext]_vars

\* C31: update_route stamps the entry it inserts or refreshes with the
\* current time, so a cleanup(now) that follows the update at once, no time
\* having passed, leaves the route in the table; cleanup removes what was
\* stamped more than 300000 ms before now.
C31_FreshRouteSurvivesCleanup ==
    [][/\ (last'.op = "update_route" /\ last'.destination # ForwardId)
            => routes'[FindRoute(routes', last'.destination)].timestamp = clock
       /\ (/\ last.op = "update_route"
           /\ last.destination # ForwardId
           /\ last'.op = "cleanup")
            => GetNextHop(routes', last.destination) # NoValue
       /\ last'.op = "cleanup"
            => \A i \in 1..ROUTE_CAPACITY :
                  (routes[i] # NoEntry /\ Elapsed(clock, routes[i].timestamp) > ROUTE_EXPIRY_MS)
                      => routes'[i] = NoEntry
      ]_vars

\* the slots of the table that hold a route
Occupied(rt) == {i \in 1..ROUTE_CAPACITY : rt[i] # NoEntry}

\* the destinations get_next_hop has an answer for
Routed(rt) == {rt[i].destination : i \in Occupied(rt)}

\* C34: after any sequence of update_route, remove_route, clear and cleanup
\* calls len() is the number of occupied slots and the number of
\* destinations with a next hop, no destination holding two slots; len() is
\* 0 exactly when there is none and never exceeds 32; remove_route(d) lowers
\* len() by one exactly when d was present, and clear() makes it 0.
C34_RouteBookkeeping ==
    /\ [](/\ route_count = Cardinality(Occupied(routes))
          /\ route_count = Cardinality(Routed(routes))
          /\ \A d \in RouteDests \cup Routed(routes) :
                GetNextHop(routes, d) # NoValue <=> d \in Routed(routes)
          /\ route_count = 0 <=> Routed(routes) = {}
          /\ route_count \in 0..ROUTE_CAPACITY)
    /\ [][/\ last'.op = "remove_route" =>
                route_count' = IF GetNextHop(routes, last'.destination) # NoValue
                               THEN route_count - 1 ELSE route_count
          /\ last'.op = "clear" => route_count' = 0 /\ Routed(routes') = {}
         ]_vars

\* A new destination had replaced the first entry of the full table, and
\* remove_route has just taken it out again.
C34_Witness ==
    /\ last.op = "remove_route"
    /\ last.destination # FillerId(1)
    /\ route_count = ROUTE_CAPACITY - 1
    /\ routes[1] = NoEntry
    /\ routes[ROUTE_CAPACITY] # NoEntry

\* C13: after any sequence of update_route, remove_route, clear and cleanup
\* calls no slot of the table owned by node n has destination n and
\* get_next_hop(n) is none; update_route(n, metric) leaves every slot and
\* len() unchanged, also when the table is full.
C13_NoRouteToSelf ==
    /\ [](\A i \in 1..ROUTE_CAPACITY :
            routes[i] # NoEntry => routes[i].destination # ForwardId)
    /\ [](GetNextHop(routes, ForwardId) = NoValue)
    /\ [][(last'.op = "update_route" /\ last'.destination = ForwardId)
          => (routes' = routes /\ route_count' = route_count)]_vars

\* update_route was called with the node's own id on a full table.
C13_Witness ==
    /\ last.op = "update_route"
    /\ last.destination = ForwardId
    /\ last.full
    /\ route_count = ROUTE_CAPACITY

\* C14: in every reachable table each entry's next hop is its destination,
\* so get_next_hop(d) is none or d; update_route on a destination already
\* present changes that entry's metric and timestamp and nothing else: len()
\* and every other entry stay as they were.
C14_SingleHop ==
    /\ [](\A i \in 1..ROUTE_CAPACITY :
            routes[i] # NoEntry => routes[i].next_hop = routes[i].destination)
    /\ [](\A d \in RouteDests : GetNextHop(routes, d) \in {NoValue, [some |-> d]})
    /\ [][LET index == FindRoute(routes, last'.destination)
          IN  (last'.op = "update_route" /\ index # 0)
              => /\ route_count' = route_count
                 /\ routes'[index].destination = routes[index].destination
                 /\ routes'[index].next_hop = routes[index].next_hop
                 /\ routes'[index].metric = last'.metric
                 /\ routes'[index].timestamp = cleanup_timer
                 /\ \A j \in 1..ROUTE_CAPACITY : j # index => routes'[j] = routes[j]
         ]_vars

\* The route learnt first has had its metric updated in place, with the
\* other learnt routes still beside it.
C14_Witness ==
    /\ last.op = "update_route"
    /\ last.index = 1
    /\ last.destination = FillerId(1)
    /\ routes[1].destination = FillerId(1)
    /\ routes[1].metric = -60
    /\ routes[2] # NoEntry
    /\ routes[2].metric = -70
    /\ GetNextHop(routes, FillerId(1)) = [some |-> FillerId(1)]

\* C15: cleanup(t) removes exactly the entries with t - timestamp > 300000
\* ms and lowers len() by their number; every entry with
\* t - timestamp <= 300000 keeps its destination, next hop, metric and
\* timestamp.
C15_RouteCleanupExact ==
    [][last'.op = "cleanup"
       => /\ \A i \in 1..ROUTE_CAPACITY :
                IF /\ routes[i] # NoEntry
                   /\ Elapsed(clock, routes[i].timestamp) > ROUTE_EXPIRY_MS
                THEN routes'[i] = NoEntry
                ELSE routes'[i] = routes[i]
          /\ route_count' = route_count - Cardinality(
                {i \in 1..ROUTE_CAPACITY :
                    /\ routes[i] # NoEntry
                    /\ Elapsed(clock, routes[i].timestamp) > ROUTE_EXPIRY_MS})
      ]_vars

\* A sweep just past the expiry age has removed routes.
C15_Witness ==
    /\ last.op = "cleanup"
    /\ last.removed > 1
    /\ clock = Time(0, ROUTE_EXPIRY_MS + 1)
    /\ route_count = 0

\* C16: with all 32 slots occupied, update_route with a destination that is
\* neither present nor the local node overwrites slot 0 with the new
\* destination (next hop = destination): len() stays 32, the destination
\* that was in slot 0 no longer resolves, the new one resolves, and slots
\* 1..31 are unchanged.
C16_FullTableOverwritesSlotZero ==
    [][(/\ last'.op = "update_route"
        /\ RouteIsFull(routes)
        /\ last'.destination # ForwardId
        /\ FindRoute(routes, last'.destination) = 0)
       => /\ routes'[1] = [destination |-> last'.destination,
                           next_hop |-> last'.destination,
                           metric |-> last'.metric,
                           timestamp |-> cleanup_timer]
          /\ route_count = ROUTE_CAPACITY
          /\ route_count' = ROUTE_CAPACITY
          /\ GetNextHop(routes', routes[1].destination) = NoValue
          /\ GetNextHop(routes', last'.destination) = [some |-> last'.destination]
          /\ \A j \in 2..ROUTE_CAPACITY : routes'[j] = routes[j]
      ]_vars

\* A new destination has taken slot 0 of a full table.
C16_Witness ==
    /\ last.op = "update_route"
    /\ last.full
    /\ last.index = 0
    /\ last.destination # ForwardId
    /\ routes[1].destination = last.destination
    /\ route_count = ROUTE_CAPACITY

-----------------------------------------------------------------------------
(* ElectionSpec: the election protocol of one forward.  Its election timer  *)
(* fires, and process_messages is handed the election messages of another   *)
(* forward.  initiate_election blocks for its collection wait: while the    *)
(* state is Electing the node is inside that call and handles nothing.      *)

\* elections started before the timer and the challenges stop
MaxElections == 2

PeerId == <<242, 243, 244, 245, 246, 247>>

\* The election ids messages carry: lower than, equal to and above the ids
\* the node reaches.
ElectionIds == {0, 1, U16 - 1}

ElectionStartInputs ==
    {WirePacket(PT_Data, PeerId, BROADCAST, id, <<ELECTION_START>> \o BE16(id) \o <<p>>) :
        id \in ElectionIds,
        p \in {GetPriority(ForwardId) - 1, GetPriority(ForwardId),
               GetPriority(ForwardId) + 1}}
        \cup {WirePacket(PT_Data, PeerId, BROADCAST, 1, <<ELECTION_START, 0, 1>>)}

ElectionResponseInputs ==
    {WirePacket(PT_Data, PeerId, ForwardId, id,
                <<ELECTION_RESPONSE>> \o BE16(id) \o <<GetPriority(PeerId)>>) :
        id \in ElectionIds}

\* Results of 10 bytes as finish_election sends them, of 9 bytes, and too short.
ElectionResultInputs ==
    {WirePacket(PT_Data, PeerId, BROADCAST, id,
                <<ELECTION_RESULT>> \o BE16(id) \o master \o pad) :
        id \in ElectionIds, master \in {PeerId, UnknownId}, pad \in {<<>>, <<0>>}}
        \cup {WirePacket(PT_Data, PeerId, BROADCAST, 1,
                         <<ELECTION_RESULT, 0, 1>> \o SubSeq(PeerId, 1, 5))}

ElectionInputs == ElectionStartInputs \cup ElectionResponseInputs \cup ElectionResultInputs

\* ElectionProtocol::new, or the node after election 65534 of its own.
ElectionStarts ==
    {[election_id |-> 0, state |-> "Idle", current_master |-> NoValue],
     [election_id |-> U16 - 2, state |-> "Completed",
      current_master |-> [some |-> ForwardId]]}

ElectionInit ==
    /\ services = EmptyDirectory
    /\ service_count = 0
    /\ last_cleanup_time = TimeZero
    /\ routes = EmptyRoutes
    /\ route_count = 0
    /\ cleanup_timer = TimeZero
    /\ clock = TimeZero
    /\ overflow_checks \in BOOLEAN
    /\ panicked = FALSE
    /\ last = [op |-> "new"]
    /\ tx = <<>>
    /\ chain = <<>>
    /\ packets = <<>>
    /\ beacons = <<>>
    /\ client = [pc |-> "off"]
    /\ forward_pc = "off"
    /\ election \in ElectionStarts
    /\ delivered = {}
    /\ peer_election = [election_id |-> 0, state |-> "Idle", current_master |-> NoValue]
    /\ timers = LoopTimersStart

\* The election ids from which a further election is followed.
CanBegin(el) == ((el.election_id + 2) % U16) < MaxElections + 2

\* forward_main's election timer: initiate_election, up to its wait.
ElectionTimer ==
    /\ election.state # "Electing"
    /\ CanBegin(election)
    /\ election' = BeginElection(ForwardId, election).election
    /\ tx' = BeginElection(ForwardId, election).tx
    /\ last' = [op |-> "initiate_election"]
    /\ UNCHANGED <<dirVars, routeVars, clock, overflow_checks, panicked, chain,
                   packets, beacons, client, forward_pc, delivered, peer_election, timers>>

\* The collection wait is over: finish_election.
ElectionFinish ==
    /\ election.state = "Electing"
    /\ election' = FinishElection(ForwardId, election).election
    /\ tx' = FinishElection(ForwardId, election).tx
    /\ last' = [op |-> "finish_election"]
    /\ UNCHANGED <<dirVars, routeVars, clock, overflow_checks, panicked, chain,
                   packets, beacons, client, forward_pc, delivered, peer_election, timers>>

\* process_messages with the packet its receive_data returned.  Where the
\* handler calls initiate_election the step ends at the collection wait.
ElectionReceive ==
    \E packet \in ElectionInputs :
        LET challenge == /\ packet.data[1] = ELECTION_START
                         /\ StartDecision(ForwardId, election, packet) = "challenge"
            r == IF challenge THEN BeginElection(ForwardId, election)
                 ELSE ProcessMessages(ForwardId, election, packet)
        IN  /\ election.state # "Electing"
            /\ challenge => CanBegin(election)
            /\ election' = r.election
            /\ tx' = r.tx
            /\ last' = [op |-> "process_messages", packet |-> packet,
                        challenge |-> challenge]
            /\ UNCHANGED <<dirVars, routeVars, clock, overflow_checks, panicked, chain,
                           packets, beacons, client, forward_pc, delivered, peer_election, timers>>

ElectionNext ==
    \/ ElectionTimer
    \/ ElectionFinish
    \/ ElectionReceive

ElectionSpec == ElectionInit /\ [][ElectionNext]_vars

-----------------------------------------------------------------------------
\* A step that enters initiate_election: the election timer, or an
\* ElectionStart the node challenges.
IsInitiate(l) ==
    \/ l.op = "initiate_election"
    \/ l.op = "process_messages" /\ l.challenge

IsReceived(l, tag) ==
    /\ l.op = "process_messages"
    /\ l.packet.data # <<>>
    /\ l.packet.data[1] = tag

\* C17: every initiate_election, from Idle, Electing or Completed, adds one
\* to the election id (modulo 2^16), broadcasts one ElectionStart with the
\* new id and the local priority, then after the wait one ElectionResult
\* with the new id and the local NodeId, and ends Completed with the local
\* node as master.
C17_InitiateElectionElectsSelf ==
    /\ [](\A st \in {"Idle", "Electing", "Completed"} :
            LET id == (election.election_id + 1) % U16
                r == InitiateElection(ForwardId, [election EXCEPT !.state = st])
            IN  /\ r.election = [election_id |-> id, state |-> "Completed",
                                 current_master |-> [some |-> ForwardId]]
                /\ r.tx = << [packet_type |-> PT_Data, source |-> ForwardId,
                              destination |-> BROADCAST, packet_id |-> id,
                              data |-> <<ELECTION_START, id \div 256, id % 256,
                                         ForwardId[1]>>],
                             [packet_type |-> PT_Data, source |-> ForwardId,
                              destination |-> BROADCAST, packet_id |-> id,
                              data |-> <<ELECTION_RESULT, id \div 256, id % 256>>
                                           \o ForwardId \o <<0>>] >>)
    /\ [][/\ IsInitiate(last') =>
                /\ election'.election_id = (election.election_id + 1) % U16
                /\ election'.state = "Electing"
                /\ tx' = << [packet_type |-> PT_Data, source |-> ForwardId,
                             destination |-> BROADCAST,
                             packet_id |-> election'.election_id,
                             data |-> <<ELECTION_START,
                                        election'.election_id \div 256,
                                        election'.election_id % 256,
                                        ForwardId[1]>>] >>
          /\ last'.op = "finish_election" =>
                /\ election.state = "Electing"
                /\ election' = [election_id |-> election.election_id,
                                state |-> "Completed",
                                current_master |-> [some |-> ForwardId]]
                /\ tx' = << [packet_type |-> PT_Data, source |-> ForwardId,
                             destination |-> BROADCAST,
                             packet_id |-> election.election_id,
                             data |-> <<ELECTION_RESULT,
                                        election.election_id \div 256,
                                        election.election_id % 256>>
                                          \o ForwardId \o <<0>>] >>
          /\ election.state = "Electing" => last'.op = "finish_election"
         ]_vars

\* The election after number 65535 is finished: its id has wrapped to 0 and
\* the result names the local node.
C17_Witness ==
    /\ last.op = "finish_election"
    /\ election = [election_id |-> 0, state |-> "Completed",
                   current_master |-> [some |-> ForwardId]]
    /\ Len(tx) = 1
    /\ tx[1].data = <<ELECTION_RESULT, 0, 0>> \o ForwardId \o <<0>>

\* C18: an ElectionStart of at least 4 bytes from a sender of strictly
\* higher priority is answered with exactly one ElectionResponse to the
\* sender, with the sender's election id and the local priority, and state,
\* election id and master stay; from a sender of lower or equal priority a
\* node that is not Electing runs initiate_election; a shorter payload
\* changes nothing and sends nothing.
C18_ElectionStartHandling ==
    /\ [](\A packet \in ElectionStartInputs :
            (/\ Len(packet.data) >= 4
             /\ packet.data[4] <= ForwardId[1]
             /\ election.state # "Electing")
            => HandleElectionStart(ForwardId, election, packet)
                   = InitiateElection(ForwardId, election))
    /\ [][IsReceived(last', ELECTION_START) =>
            LET data == last'.packet.data
            IN  /\ (Len(data) >= 4 /\ data[4] > ForwardId[1]) =>
                      /\ election' = election
                      /\ tx' = << [packet_type |-> PT_Data, source |-> ForwardId,
                                   destination |-> last'.packet.source,
                                   packet_id |-> data[2] * 256 + data[3],
                                   data |-> <<ELECTION_RESPONSE, data[2], data[3],
                                              ForwardId[1]>>] >>
                /\ (Len(data) >= 4 /\ data[4] <= ForwardId[1]
                        /\ election.state # "Electing") =>
                      /\ IsInitiate(last')
                      /\ election'.election_id = (election.election_id + 1) % U16
                      /\ election'.state = "Electing"
                /\ Len(data) < 4 =>
                      /\ election' = election
                      /\ tx' = <<>>
         ]_vars

\* A node with a master of its own has answered the start of a sender of
\* higher priority.
C18_Witness ==
    /\ IsReceived(last, ELECTION_START)
    /\ Len(last.packet.data) = 4
    /\ last.packet.data[4] > ForwardId[1]
    /\ Len(tx) = 1
    /\ tx[1].destination = PeerId
    /\ tx[1].data[1] = ELECTION_RESPONSE
    /\ election.state = "Completed"
    /\ election.current_master = [some |-> ForwardId]

\* C19: an ElectionResult of at least 9 bytes makes the announced node the
\* master and the state Completed, whatever the state before and whatever
\* election id it carries; nothing is sent and the node's election id stays.
C19_ElectionResultAdopted ==
    /\ [](\A packet \in ElectionResultInputs :
          \A st \in {"Idle", "Electing", "Completed"} :
            Len(packet.data) >= 9 =>
                HandleElectionResult(ForwardId, [election EXCEPT !.state = st], packet)
                    = [election |-> [election_id |-> election.election_id,
                                     state |-> "Completed",
                                     current_master |->
                                         [some |-> SubSeq(packet.data, 4, 9)]],
                       tx |-> <<>>])
    /\ [][(IsReceived(last', ELECTION_RESULT) /\ Len(last'.packet.data) >= 9) =>
            /\ election' = [election_id |-> election.election_id,
                            state |-> "Completed",
                            current_master |->
                                [some |-> SubSeq(last'.packet.data, 4, 9)]]
            /\ tx' = <<>>
         ]_vars

\* The node has run an election of its own and then adopted the master of a
\* result that carries an older election id.
C19_Witness ==
    /\ IsReceived(last, ELECTION_RESULT)
    /\ Len(last.packet.data) >= 9
    /\ last.packet.data[2] * 256 + last.packet.data[3] < election.election_id
    /\ election.state = "Completed"
    /\ election.current_master = [some |-> PeerId]
    /\ tx = <<>>

\* C20: the state never becomes Idle again, a master once set is never
\* unset, and the state changes only into Electing, by initiate_election,
\* and into Completed, by finish_election or a received ElectionResult.
C20_NoWayBackToIdle ==
    [][/\ election.state # "Idle" => election'.state # "Idle"
       /\ election.current_master # NoValue => election'.current_master # NoValue
       /\ election'.state # election.state =>
            \/ election'.state = "Electing" /\ IsInitiate(last')
            \/ /\ election'.state = "Completed"
               /\ \/ last'.op = "finish_election"
                  \/ IsReceived(last', ELECTION_RESULT)
      ]_vars

\* A node that has a master from a received result is in an election of its
\* own again.
C20_Witness ==
    /\ IsInitiate(last)
    /\ election.state = "Electing"
    /\ election.current_master = [some |-> PeerId]

-----------------------------------------------------------------------------
(* AgreementSpec: two forwards, ForwardId and PeerId, run the election      *)
(* protocol over the shared bus.  Only their process_messages take packets  *)
(* off the bus, so every election message is handled as one.                *)

\* elections a node's own timer starts
MaxTimerElections == 1

ElectionOf(node) == IF node = ForwardId THEN election ELSE peer_election

Forwards == {ForwardId, PeerId}

AgreementInit ==
    /\ services = EmptyDirectory
    /\ service_count = 0
    /\ last_cleanup_time = TimeZero
    /\ routes = EmptyRoutes
    /\ route_count = 0
    /\ cleanup_timer = TimeZero
    /\ clock = TimeZero
    /\ overflow_checks \in BOOLEAN
    /\ panicked = FALSE
    /\ last = [op |-> "new"]
    /\ tx = <<>>
    /\ chain = <<>>
    /\ NetIdle

\* The node's election record becomes `el`, the other node's stays.
SetElection(node, el) ==
    /\ election' = IF node = ForwardId THEN el ELSE election
    /\ peer_election' = IF node = PeerId THEN el ELSE peer_election

\* A node's election timer: initiate_election, up to its wait.
AgreementTimer ==
    \E node \in Forwards :
        /\ ElectionOf(node).state # "Electing"
        /\ ElectionOf(node).election_id < MaxTimerElections
        /\ SetElection(node, BeginElection(node, ElectionOf(node)).election)
        /\ packets' = Push(packets, node, BeginElection(node, ElectionOf(node)).tx)
        /\ last' = [op |-> "initiate_election", node |-> node]
        /\ UNCHANGED <<dirVars, routeVars, clock, overflow_checks, panicked, tx, chain,
                       beacons, client, forward_pc, delivered, timers>>

\* A node's collection wait is over: finish_election.
AgreementFinish ==
    \E node \in Forwards :
        /\ ElectionOf(node).state = "Electing"
        /\ SetElection(node, FinishElection(node, ElectionOf(node)).election)
        /\ packets' = Push(packets, node, FinishElection(node, ElectionOf(node)).tx)
        /\ last' = [op |-> "finish_election", node |-> node]
        /\ UNCHANGED <<dirVars, routeVars, clock, overflow_checks, panicked, tx, chain,
                       beacons, client, forward_pc, delivered, timers>>

\* A node's process_messages takes the next packet off the bus.  Where the
\* handler calls initiate_election the step ends at the collection wait.
AgreementReceive ==
    \E node \in Forwards :
        LET r == Receive(packets, node)
            el == ElectionOf(node)
            challenge == /\ r.msg.some.data # <<>>
                         /\ r.msg.some.data[1] = ELECTION_START
                         /\ StartDecision(node, el, r.msg.some) = "challenge"
            e == IF challenge THEN BeginElection(node, el)
                 ELSE ProcessMessages(node, el, r.msg.some)
        IN  /\ el.state # "Electing"
            /\ r.msg # NoValue
            /\ SetElection(node, e.election)
            /\ packets' = Push(r.queue, node, e.tx)
            /\ delivered' = delivered \cup Delivery(node, r)
            /\ last' = [op |-> "process_messages", node |-> node,
                        packet |-> r.msg.some, challenge |-> challenge]
            /\ UNCHANGED <<dirVars, routeVars, clock, overflow_checks, panicked, tx,
                           chain, beacons, client, forward_pc, timers>>

AgreementNext ==
    \/ AgreementTimer
    \/ AgreementFinish
    \/ AgreementReceive

AgreementSpec == AgreementInit /\ [][AgreementNext]_vars

\* An election was initiated, no node is inside one, and the bus is empty:
\* every election message sent has been delivered and handled.
ElectionSettled ==
    /\ election.election_id > 0 \/ peer_election.election_id > 0
    /\ election.state # "Electing"
    /\ peer_election.state # "Electing"
    /\ packets = <<>>

\* C21: agreement.  Once an election was initiated and every election
\* message sent has been delivered and handled, the forwards hold the same
\* current master.
C21_Agreement ==
    ElectionSettled => election.current_master = peer_election.current_master

-----------------------------------------------------------------------------
(* common/utils/checksum.rs *)

CRC_POLY == 4129        \* 0x1021
CRC_INIT == 65535       \* 0xFFFF

RECURSIVE Xor(_, _)
\* a ^ b on unsigned values
Xor(a, b) ==
    IF a = 0 THEN b
    ELSE IF b = 0 THEN a
    ELSE 2 * Xor(a \div 2, b \div 2) + (((a % 2) + (b % 2)) % 2)

\* One turn of the inner loop: the register shifts left by one in 16 bits,
\* and the polynomial is folded in when the bit shifted out was set.
CrcShift(crc) ==
    IF crc \div 32768 # 0 THEN Xor((crc * 2) % U16, CRC_POLY)
    ELSE (crc * 2) % U16

RECURSIVE CrcShifts(_, _)
CrcShifts(crc, n) == IF n = 0 THEN crc ELSE CrcShift(CrcShifts(crc, n - 1))

\* The body of the outer loop for one byte.
CrcByte(crc, byte) == CrcShifts(Xor(crc, byte * 256), 8)

RECURSIVE CrcFrom(_, _)
\* The register after the bytes of `data`, from the initial value `crc`.
CrcFrom(crc, data) ==
    IF data = <<>> THEN crc
    ELSE LET reg == CrcFrom(crc, SubSeq(data, 1, Len(data) - 1))
         IN  CASE reg \in 0..(U16 - 1) -> CrcByte(reg, data[Len(data)])     \* crc: u16

CalculateChecksum(data) == CrcFrom(CRC_INIT, data)

VerifyChecksum(data, checksum) == CalculateChecksum(data) = checksum

-----------------------------------------------------------------------------
(* CrcSpec: calculate_checksum applied to byte strings that grow by one     *)
(* byte, and to the ASCII digits "123456789".                                *)

\* longest byte string the checksum is taken of
MaxCrcLen == 5

CrcBytes == 1..5

CrcDigits == <<49, 50, 51, 52, 53, 54, 55, 56, 57>>

ChecksumCall(data) ==
    [op |-> "calculate_checksum", data |-> data, crc |-> CalculateChecksum(data)]

CrcInit ==
    /\ services = EmptyDirectory
    /\ service_count = 0
    /\ last_cleanup_time = TimeZero
    /\ routes = EmptyRoutes
    /\ route_count = 0
    /\ cleanup_timer = TimeZero
    /\ clock = TimeZero
    /\ overflow_checks \in BOOLEAN
    /\ panicked = FALSE
    /\ last = ChecksumCall(<<>>)
    /\ tx = <<>>
    /\ chain = <<>>
    /\ NetIdle

CrcExtend ==
    \E byte \in CrcBytes :
        /\ last.data # CrcDigits
        /\ Len(last.data) < MaxCrcLen
        /\ last' = ChecksumCall(Append(last.data, byte))
        /\ UNCHANGED <<dirVars, routeVars, clock, overflow_checks, panicked, tx, chain,
                       netVars>>

CrcOfDigits ==
    /\ last' = ChecksumCall(CrcDigits)
    /\ UNCHANGED <<dirVars, routeVars, clock, overflow_checks, panicked, tx, chain,
                   netVars>>

CrcNext ==
    \/ CrcExtend
    \/ CrcOfDigits

CrcSpec == CrcInit /\ [][CrcNext]_vars

\* C25: calculate_checksum is CRC-16-CCITT (polynomial 0x1021, initial
\* register 0xFFFF, MSB first, no final XOR, modulo 2^16): the register of
\* the empty string is 0xFFFF and the digits "123456789" give 0x29B1; and
\* the bytes 01 02 03 04 05 give 0x5BCA, the value test_checksum expects.
C25_ChecksumTestVector ==
    /\ last.crc \in 0..(U16 - 1)
    /\ last.data = <<>> => last.crc = 65535
    /\ last.data = CrcDigits => last.crc = 10673
    /\ last.data = <<1, 2, 3, 4, 5>> => last.crc = 23498

-----------------------------------------------------------------------------
(* common/protocol/data.rs and beacon.rs: the checksums.  Both structs are  *)
(* repr(C, packed) and are summed as they lie in memory, their 16-bit       *)
(* fields low byte first (the simulator's and the board's byte order).      *)

PROTOCOL_VERSION == 1

LE16(v) == <<v % 256, v \div 256>>

\* an i8 as the byte that stores it
ByteOfI8(v) == IF v < 0 THEN v + 256 ELSE v

\* The bytes of a DataHeader whose checksum field holds `checksum`.
HeaderBytes(packet, checksum) ==
    <<PROTOCOL_VERSION, packet.packet_type>> \o packet.source \o packet.destination
        \o LE16(packet.packet_id) \o <<1, 0>> \o LE16(Len(packet.data)) \o LE16(checksum)

\* update_checksum / is_valid: header with a zero checksum field, and payload
PacketChecksum(packet) ==
    Xor(CalculateChecksum(HeaderBytes(packet, 0)), CalculateChecksum(packet.data))

PacketIsValid(packet) == PacketChecksum(packet) = packet.checksum

\* The bytes of a Beacon whose checksum field holds `checksum`.
BeaconBytes(beacon, checksum) ==
    <<PROTOCOL_VERSION, PT_Beacon>> \o beacon.source
        \o <<beacon.battery_level, ByteOfI8(beacon.rssi), 0, 0, 0, 0>> \o LE16(checksum)

BeaconChecksum(beacon) == CalculateChecksum(BeaconBytes(beacon, 0))

BeaconIsValid(beacon) == BeaconChecksum(beacon) = beacon.checksum

-----------------------------------------------------------------------------
(* IntegritySpec: the forward is handed beacons and packets whose checksum  *)
(* field matches their contents, and ones in which a bit of the checksum    *)
(* field or a byte of the contents was changed on the way.                  *)

\* A packet as its sender's update_checksum left it.
Sealed(packet) ==
    [packet_type |-> packet.packet_type, source |-> packet.source,
     destination |-> packet.destination, packet_id |-> packet.packet_id,
     data |-> packet.data, checksum |-> PacketChecksum(packet)]

\* The packet with a bit of its checksum field inverted.
ChecksumFlipped(packet) == [packet EXCEPT !.checksum = Xor(packet.checksum, 1)]

\* The packet with its packet id changed and the checksum of the original.
IdChanged(packet) == [packet EXCEPT !.packet_id = (packet.packet_id + 1) % U16]

Damaged(sealed) == {ChecksumFlipped(p) : p \in sealed} \cup {IdChanged(p) : p \in sealed}

IntegrityHandlerInputs ==
    LET qos == [min_bandwidth |-> 500, max_latency |-> 200, reliability |-> 80]
        sealed ==
            {Sealed(WirePacket(PT_Data, ClientId, ServerId, 7, <<1, 2, 3, 4>>)),
             Sealed(WirePacket(PT_ServiceRequest, ClientId, ForwardId, 7,
                               SerializeServiceRequest(
                                   [service_type |-> ST_VideoRelay, qos |-> qos,
                                    expiry_time |-> 60]))),
             Sealed(WirePacket(PT_PathEstablish, UnknownId, ServerId, 7,
                               PathData(ClientId, ST_VideoRelay, qos))),
             Sealed(WirePacket(PT_PathConfirm, ServerId, ForwardId, 7,
                               ClientId \o <<PathStatus_Success, 1>>))}
    IN  sealed \cup Damaged(sealed)

IntegrityElectionInputs ==
    LET sealed ==
            {Sealed(WirePacket(PT_Data, PeerId, BROADCAST, 1,
                               <<ELECTION_START, 0, 1, GetPriority(PeerId)>>)),
             Sealed(WirePacket(PT_Data, PeerId, BROADCAST, 1,
                               <<ELECTION_RESULT, 0, 1>> \o PeerId \o <<0>>))}
    IN  sealed \cup Damaged(sealed)

IntegrityBeaconInputs ==
    LET sealed == {[source |-> s, battery_level |-> 100, rssi |-> -70,
                    checksum |-> BeaconChecksum([source |-> s, battery_level |-> 100,
                                                 rssi |-> -70])] :
                        s \in {ServerId, ClientId}}
    IN  sealed \cup {ChecksumFlipped(b) : b \in sealed}
               \cup {[b EXCEPT !.rssi = -50] : b \in sealed}

\* receive_beacon returned `beacon`: handle_beacon asks is_valid.
IntegrityBeacon ==
    \E beacon \in IntegrityBeaconInputs :
        /\ ~panicked
        /\ LET r == HandleBeacon(ForwardId, routes, route_count, cleanup_timer,
                                 services, service_count,
                                 [source |-> beacon.source,
                                  battery_level |-> beacon.battery_level,
                                  rssi |-> beacon.rssi,
                                  checksum_ok |-> BeaconIsValid(beacon)], clock)
           IN  /\ routes' = r.routes
               /\ route_count' = r.route_count
               /\ services' = r.services
               /\ service_count' = r.service_count
        /\ last' = [op |-> "handle_beacon", beacon |-> beacon]
        /\ tx' = <<>>
        /\ UNCHANGED <<last_cleanup_time, cleanup_timer, clock, overflow_checks,
                       panicked, chain, netVars>>

\* receive_data returned `packet`: the handler chosen by its type runs.
IntegrityPacket ==
    \E packet \in IntegrityHandlerInputs : ~panicked /\ Handle(packet)

\* process_messages received `packet`.
IntegrityElection ==
    \E packet \in IntegrityElectionInputs :
        /\ ~panicked
        /\ election' = ProcessMessages(ForwardId, election, packet).election
        /\ tx' = ProcessMessages(ForwardId, election, packet).tx
        /\ last' = [op |-> "process_messages", packet |-> packet]
        /\ UNCHANGED <<dirVars, routeVars, clock, overflow_checks, panicked, chain,
                       packets, beacons, client, forward_pc, delivered, peer_election, timers>>

IntegrityNext ==
    \/ IntegrityBeacon
    \/ IntegrityPacket
    \/ IntegrityElection

IntegritySpec == Init /\ [][IntegrityNext]_vars

\* C22: a packet whose checksum does not match its contents has no effect
\* on a forward: an invalid beacon changes neither routing table nor
\* directory, and an invalid Data, ServiceRequest, PathEstablish,
\* PathConfirm or election packet is neither relayed nor answered and
\* changes no routing, directory or election state.
C22_InvalidChecksumHasNoEffect ==
    [][/\ (last'.op = "handle_beacon" /\ ~BeaconIsValid(last'.beacon))
            => UNCHANGED <<dirVars, routeVars>>
       /\ (last'.op \notin {"new", "handle_beacon"} /\ ~PacketIsValid(last'.packet))
            => /\ tx' = <<>>
               /\ UNCHANGED <<dirVars, routeVars, election>>
      ]_vars

-----------------------------------------------------------------------------
(* DecodeSpec: the forward, which beacons have told of providers, is handed *)
(* ServiceRequest packets whose payload decodes or does not; and the        *)
(* client's decoder is applied to ServiceResponse payloads.                 *)

\* payload lengths around SERVICE_REQUEST_LEN, first bytes around 0x01..0x07
DecodeRequestBuffers ==
    {SubSeq(<<first, 1, 244, 0, 200, 80, 0, 60, 9>>, 1, n) :
        first \in {0, ST_Storage, ST_VideoRelay, ST_SensorCollection, 8, U8 - 1},
        n \in {0, 1, SERVICE_REQUEST_LEN - 1, SERVICE_REQUEST_LEN,
               SERVICE_REQUEST_LEN + 1}}

\* payload lengths around SERVICE_RESPONSE_LEN
DecodeResponseBuffers ==
    {SubSeq(<<0, 0, 0, 7>> \o ServerId \o <<status, 9>>, 1, n) :
        status \in {0, 1},
        n \in {0, 1, SERVICE_RESPONSE_LEN - 1, SERVICE_RESPONSE_LEN,
               SERVICE_RESPONSE_LEN + 1}}

DecodeRequest ==
    \E buffer \in DecodeRequestBuffers, id \in {7} :
        /\ ~panicked
        /\ Handle(WirePacket(PT_ServiceRequest, ClientId, ForwardId, id, buffer))

DecodeResponse ==
    \E buffer \in DecodeResponseBuffers :
        /\ ~panicked
        /\ last' = [op |-> "deserialize_service_response", buffer |-> buffer,
                    result |-> DeserializeServiceResponse(buffer)]
        /\ tx' = <<>>
        /\ UNCHANGED <<dirVars, routeVars, clock, overflow_checks, panicked, chain,
                       netVars>>

DecodeNext ==
    \/ RecvBeacon
    \/ DecodeRequest
    \/ DecodeResponse

DecodeSpec == Init /\ [][DecodeNext]_vars

\* C23: deserialize_service_request returns none exactly when the buffer
\* has fewer than 8 bytes or its first byte is outside 0x01..0x07, and
\* deserialize_service_response exactly when the buffer has fewer than 11
\* bytes; for a ServiceRequest whose payload does not decode the forward
\* sends nothing and leaves routing table and directory as they were.
C23_UndecodableRequestIgnored ==
    /\ [](last.op = "deserialize_service_response" =>
            (last.result = NoValue <=> Len(last.buffer) < 11))
    /\ [][last'.op = "handle_service_request" =>
            LET data == last'.packet.data
                none == Len(data) < 8 \/ data[1] \notin 1..7
            IN  /\ DeserializeServiceRequest(data) = NoValue <=> none
                /\ none => /\ tx' = <<>>
                           /\ UNCHANGED <<dirVars, routeVars>>
                /\ ~none => /\ tx' # <<>>
                            /\ DeserializeServiceResponse(tx'[1].data) # NoValue
         ]_vars

\* The directory holds a provider, and a request of full length with the
\* unknown type byte 8 was left unanswered.
C23_Witness ==
    /\ last.op = "handle_service_request"
    /\ Len(last.packet.data) >= 8
    /\ last.packet.data[1] = 8
    /\ service_count > 0
    /\ tx = <<>>

-----------------------------------------------------------------------------
(* RoundTripSpec: a ServiceRequest or a ServiceResponse is serialized into  *)
(* a transmit buffer and the bytes written are deserialized again.          *)

RoundTripRequests ==
    [service_type : {ST_Storage, ST_VideoRelay, ST_SensorCollection},
     qos : [min_bandwidth : {0, 500, U16 - 1}, max_latency : {0, 200, U16 - 1},
            reliability : {0, 80, U8 - 1}],
     expiry_time : {0, 60, U16 - 1}]

RoundTripResponses ==
    [service_id : {0, 7, 2147483647}, server_node_id : {ServerId, BROADCAST},
     status : {0, 1, U8 - 1}]

RoundTripRequest ==
    \E x \in RoundTripRequests :
        /\ last' = [op |-> "service_request", value |-> x,
                    bytes |-> SerializeServiceRequest(x),
                    result |-> DeserializeServiceRequest(SerializeServiceRequest(x))]
        /\ UNCHANGED <<dirVars, routeVars, clock, overflow_checks, panicked, tx, chain,
                       netVars>>

RoundTripResponse ==
    \E x \in RoundTripResponses :
        /\ last' = [op |-> "service_response", value |-> x,
                    bytes |-> SerializeServiceResponse(x),
                    result |-> DeserializeServiceResponse(SerializeServiceResponse(x))]
        /\ UNCHANGED <<dirVars, routeVars, clock, overflow_checks, panicked, tx, chain,
                       netVars>>

RoundTripNext ==
    \/ RoundTripRequest
    \/ RoundTripResponse

RoundTripSpec == Init /\ [][RoundTripNext]_vars

\* C24: codec round trip.  A ServiceRequest with a recognized service type,
\* any QoS values and an expiry time that fits in 16 bits is decoded from
\* its own serialization field by field equal, and so is every
\* ServiceResponse.
C24_CodecRoundTrip ==
    last.op \in {"service_request", "service_response"} => last.result = last.value

-----------------------------------------------------------------------------
(* BusSpec: SimChannel under concurrent use.  Every call locks the queue    *)
(* it works on for its whole body, so the calls of the node threads take    *)
(* effect one at a time, in any order.  push_packet is called as send_data  *)
(* calls it, with the length of the bytes it passes.                        *)

\* messages pushed on each queue
MaxBusMessages == 2

BusNodes == {ClientId, ForwardId, ServerId}

\* length of the caller's receive buffer: the client's holds only the
\* shorter packets, the others are the nodes' own 256 bytes
BusBuffer(node) ==
    IF node = ClientId THEN DATA_HEADER_SIZE + 4 ELSE MAX_PACKET_SIZE

\* what a node sends: the forward's packets are the longer ones
BusPayload(node) ==
    IF node = ForwardId THEN <<1, 2, 3, 4, 5, 6, 7, 8>> ELSE <<1, 2, 3, 4>>

\* the `len` a packet is pushed with
WireLen(packet) == DATA_HEADER_SIZE + Len(packet.data)

\* get_packet's scan: the first entry not pushed by `dest` whose length fits
\* a buffer of `buflen` bytes, 0 when there is none
FirstFitting(queue, dest, buflen) ==
    LET hits == {i \in 1..Len(queue) :
                    queue[i].from # dest /\ WireLen(queue[i].msg) <= buflen}
    IN  IF hits = {} THEN 0 ELSE CHOOSE i \in hits : \A j \in hits : i <= j

\* A get_packet that copies the packet out and leaves it queued (not what
\* the code does).
GetPacket_Peek(queue, dest, buflen) ==
    IF FirstFitting(queue, dest, buflen) = 0
    THEN [entry |-> NoValue, queue |-> queue]
    ELSE [entry |-> [some |-> queue[FirstFitting(queue, dest, buflen)]],
          queue |-> queue]

GetPacket(queue, dest, buflen) ==
    IF FirstFitting(queue, dest, buflen) = 0
    THEN [entry |-> NoValue, queue |-> queue]
    ELSE [entry |-> [some |-> queue[FirstFitting(queue, dest, buflen)]],
          queue |-> RemoveAt(queue, FirstFitting(queue, dest, buflen))]

GetBeacon(queue, dest) ==
    IF FirstFor(queue, dest) = 0 THEN [entry |-> NoValue, queue |-> queue]
    ELSE [entry |-> [some |-> queue[FirstFor(queue, dest)]],
          queue |-> RemoveAt(queue, FirstFor(queue, dest))]

\* tx is the record of every push_packet and chain of every push_beacon, in
\* the order the pushes took effect.
Pushed(kind) == IF kind = "packets" THEN tx ELSE chain

BusInit ==
    /\ services = EmptyDirectory
    /\ service_count = 0
    /\ last_cleanup_time = TimeZero
    /\ routes = EmptyRoutes
    /\ route_count = 0
    /\ cleanup_timer = TimeZero
    /\ clock = TimeZero
    /\ overflow_checks = FALSE
    /\ panicked = FALSE
    /\ last = [op |-> "new"]
    /\ tx = <<>>
    /\ chain = <<>>
    /\ NetIdle

\* send_data: the packet's id is the number of the push, which tells the
\* packets apart.
BusPushPacket ==
    \E node \in BusNodes :
        LET entry == [from |-> node,
                      msg |-> NewDataPacket(node, BROADCAST, Len(Pushed("packets")),
                                            BusPayload(node))]
        IN  /\ Len(Pushed("packets")) < MaxBusMessages
            /\ packets' = Append(packets, entry)
            /\ tx' = Append(tx, entry)
            /\ last' = [op |-> "push_packet", node |-> node]
            /\ UNCHANGED <<dirVars, routeVars, clock, overflow_checks, panicked, chain,
                           beacons, client, forward_pc, election, delivered,
                           peer_election, timers>>

\* send_beacon: the battery level is different for every beacon, which
\* tells the beacons apart.
BusPushBeacon ==
    \E node \in BusNodes :
        LET entry == [from |-> node,
                      msg |-> [source |-> node,
                               battery_level |-> 100 - Len(Pushed("beacons")),
                               rssi |-> -70, checksum_ok |-> TRUE]]
        IN  /\ Len(Pushed("beacons")) < MaxBusMessages
            /\ beacons' = Append(beacons, entry)
            /\ chain' = Append(chain, entry)
            /\ last' = [op |-> "push_beacon", node |-> node]
            /\ UNCHANGED <<dirVars, routeVars, clock, overflow_checks, panicked, tx,
                           packets, client, forward_pc, election, delivered,
                           peer_election, timers>>

BusGetPacket ==
    \E node \in BusNodes :
        LET buflen == BusBuffer(node)
            r == GetPacket(packets, node, buflen)
        IN  /\ packets' = r.queue
            /\ delivered' = delivered \cup
                   (IF r.entry = NoValue THEN {}
                    ELSE {[node |-> node, queue |-> "packets", entry |-> r.entry.some]})
            /\ last' = [op |-> "get_packet", node |-> node, buflen |-> buflen,
                        entry |-> r.entry]
            /\ UNCHANGED <<dirVars, routeVars, clock, overflow_checks, panicked, tx,
                           chain, beacons, client, forward_pc, election, peer_election, timers>>

BusGetBeacon ==
    \E node \in BusNodes :
        LET r == GetBeacon(beacons, node)
        IN  /\ beacons' = r.queue
            /\ delivered' = delivered \cup
                   (IF r.entry = NoValue THEN {}
                    ELSE {[node |-> node, queue |-> "beacons", entry |-> r.entry.some]})
            /\ last' = [op |-> "get_beacon", node |-> node, entry |-> r.entry]
            /\ UNCHANGED <<dirVars, routeVars, clock, overflow_checks, panicked, tx,
                           chain, packets, client, forward_pc, election, peer_election, timers>>

BusNext ==
    \/ BusPushPacket
    \/ BusPushBeacon
    \/ BusGetPacket
    \/ BusGetBeacon

BusSpec == BusInit /\ [][BusNext]_vars

\* The entries of `queue` that `node` pushed itself, in queue order.
OwnEntries(queue, node) == SelectSeq(queue, LAMBDA e : e.from = node)

\* `after` is `before` without the entry the get returned; nothing else moved.
TookOne(before, after, entry) ==
    \E i \in 1..Len(before) : before[i] = entry /\ after = RemoveAt(before, i)

\* C26: a node never receives its own transmission: get_beacon(n) and
\* get_packet(n, ..) never return a message pushed with source n, and a
\* message skipped for that reason stays in the queue in its position.
C26_NoSelfReception ==
    [][/\ last'.op = "get_packet" =>
            /\ last'.entry # NoValue =>
                  /\ last'.entry.some.from # last'.node
                  /\ TookOne(packets, packets', last'.entry.some)
            /\ last'.entry = NoValue => packets' = packets
            /\ OwnEntries(packets', last'.node) = OwnEntries(packets, last'.node)
       /\ last'.op = "get_beacon" =>
            /\ last'.entry # NoValue =>
                  /\ last'.entry.some.from # last'.node
                  /\ TookOne(beacons, beacons', last'.entry.some)
            /\ last'.entry = NoValue => beacons' = beacons
            /\ OwnEntries(beacons', last'.node) = OwnEntries(beacons, last'.node)
      ]_vars

\* The forward asked for a packet while its own packet was the oldest on
\* the bus: it got the server's, and its own is now at the head.
C26_Witness ==
    /\ last.op = "get_packet"
    /\ last.node = ForwardId
    /\ last.entry # NoValue
    /\ last.entry.some.from = ServerId
    /\ Len(packets) >= 1
    /\ packets[1].from = ForwardId
    /\ packets[1].msg.packet_id < last.entry.some.msg.packet_id


\* How often `entry` is on `queue`.
TimesQueued(queue, entry) == Cardinality({i \in 1..Len(queue) : queue[i] = entry})

\* The get calls that returned `entry` of the queue `kind`.
Returns(kind, entry) == {d \in delivered : d.queue = kind /\ d.entry = entry}

-----------------------------------------------------------------------------
(* client/src/discovery.rs *)

FIND_MAX_ATTEMPTS == 30

\* receive_server_response: the source of a beacon that verifies
ReceiveServerResponse(beacon) ==
    IF beacon # NoValue /\ beacon.some.checksum_ok THEN [some |-> beacon.some.source]
    ELSE NoValue

\* A search that allows itself one attempt more (not what the code does).
FindServerAttempt_OneMore(c, beacon) ==
    IF ReceiveServerResponse(beacon) # NoValue
    THEN [c EXCEPT !.pc = "request", !.forward = ReceiveServerResponse(beacon)]
    ELSE IF c.attempt + 1 <= FIND_MAX_ATTEMPTS
         THEN [c EXCEPT !.attempt = c.attempt + 1]
         ELSE [c EXCEPT !.attempt = c.attempt + 1, !.pc = "exit"]

\* One turn of find_server's loop after its send_discovery_beacon, with
\* `beacon` what receive_beacon returned; the loop ends with the count at
\* max_attempts.
FindServerAttempt(c, beacon) ==
    IF ReceiveServerResponse(beacon) # NoValue
    THEN [c EXCEPT !.pc = "request", !.forward = ReceiveServerResponse(beacon)]
    ELSE IF c.attempt + 1 < FIND_MAX_ATTEMPTS
         THEN [c EXCEPT !.attempt = c.attempt + 1]
         ELSE [c EXCEPT !.attempt = c.attempt + 1, !.pc = "exit"]

-----------------------------------------------------------------------------
(* DiscoverySpec: the client calls find_server and, with the node found,    *)
(* request_service.  What its receive_beacon and receive_data return is     *)
(* chosen freely in every turn: nothing, or a message of another node.      *)

DiscoveryStart ==
    [pc |-> "find", attempt |-> 0, forward |-> NoValue, retry_count |-> 0,
     endpoint |-> NoValue, path_established |-> FALSE, data_send_timer |-> TimeZero]

\* what receive_beacon returns: nothing, a beacon that verifies, one that
\* does not
DiscoveryBeacons ==
    {NoValue}
        \cup {[some |-> [source |-> ForwardId, battery_level |-> 100, rssi |-> -70,
                         checksum_ok |-> ok]] : ok \in BOOLEAN}

\* what arrives while request_service waits: nothing, the forward's answer
\* with status 0 or 1, an answer too short to decode, the same answer from
\* another node, and a packet the forward sends with another type
DiscoveryPackets ==
    {NoValue}
        \cup {[some |-> WirePacket(PT_ServiceResponse, ForwardId, ClientId, 0,
                           SerializeServiceResponse(
                               [service_id |-> 7, server_node_id |-> ServerId,
                                status |-> st]))] : st \in {0, 1}}
        \cup {[some |-> WirePacket(PT_ServiceResponse, ForwardId, ClientId, 0,
                                   <<0, 0, 0, 7>> \o ServerId)],
              [some |-> WirePacket(PT_ServiceResponse, ServerId, ClientId, 0,
                           SerializeServiceResponse(
                               [service_id |-> 7, server_node_id |-> ServerId,
                                status |-> 0]))],
              [some |-> WirePacket(PT_Data, ForwardId, ClientId, 0,
                           SerializeServiceResponse(
                               [service_id |-> 7, server_node_id |-> ServerId,
                                status |-> 0]))]}

DiscoveryInit ==
    /\ services = EmptyDirectory
    /\ service_count = 0
    /\ last_cleanup_time = TimeZero
    /\ routes = EmptyRoutes
    /\ route_count = 0
    /\ cleanup_timer = TimeZero
    /\ clock = TimeZero
    /\ overflow_checks = FALSE
    /\ panicked = FALSE
    /\ last = [op |-> "new"]
    /\ tx = <<>>
    /\ chain = <<>>
    /\ packets = <<>>
    /\ beacons = <<>>
    /\ client = DiscoveryStart
    /\ forward_pc = "off"
    /\ election = [election_id |-> 0, state |-> "Idle", current_master |-> NoValue]
    /\ delivered = {}
    /\ peer_election = [election_id |-> 0, state |-> "Idle", current_master |-> NoValue]
    /\ timers = LoopTimersStart

\* One attempt of find_server: the discovery beacon goes on the bus, where
\* the client itself never takes it off, and receive_beacon returns `beacon`.
DiscoveryAttempt ==
    \E beacon \in DiscoveryBeacons :
        /\ client.pc = "find"
        /\ beacons' = Push(beacons, ClientId, <<BusBeacon(ClientId)>>)
        /\ client' = FindServerAttempt(client, beacon)
        /\ last' = [op |-> "find_server", beacon |-> beacon]
        /\ UNCHANGED <<dirVars, routeVars, clock, overflow_checks, panicked, tx, chain,
                       packets, forward_pc, election, delivered, peer_election, timers>>

\* request_service up to the wait loop.
DiscoveryRequest ==
    /\ client.pc = "request"
    /\ client' = ClientSendRequest(client, client.forward.some, packets).client
    /\ packets' = ClientSendRequest(client, client.forward.some, packets).packets
    /\ last' = [op |-> "request_service", calls |-> 0]
    /\ UNCHANGED <<dirVars, routeVars, clock, overflow_checks, panicked, tx, chain,
                   beacons, forward_pc, election, delivered, peer_election, timers>>

\* One turn of the wait loop: `arrived` is what the bus got meanwhile, and
\* receive_data is called once; last.calls counts these calls.
DiscoveryWait ==
    \E arrived \in DiscoveryPackets :
        LET queue == IF arrived = NoValue THEN packets
                     ELSE Push(packets, arrived.some.source, <<arrived.some>>)
            r == ClientAwaitResponse(client, client.forward.some, queue)
        IN  /\ client.pc = "wait"
            /\ client' = r.client
            /\ packets' = r.packets
            /\ delivered' = delivered \cup r.got
            /\ last' = [op |-> "receive_data", calls |-> last.calls + 1,
                        arrived |-> arrived]
            /\ UNCHANGED <<dirVars, routeVars, clock, overflow_checks, panicked, tx,
                           chain, beacons, forward_pc, election, peer_election, timers>>

DiscoveryNext ==
    \/ DiscoveryAttempt
    \/ DiscoveryRequest
    \/ DiscoveryWait

DiscoverySpec == DiscoveryInit /\ [][DiscoveryNext]_vars

\* C28: without a valid beacon find_server returns none after exactly 30
\* attempts, each of which sent one discovery beacon; without a
\* ServiceResponse from the chosen forward request_service returns none
\* after exactly 10 receive attempts; on a response with a status other
\* than 0 it returns none at once, and on status 0 it returns an endpoint
\* that names the server of the response.
C28_ClientWaitsAreBounded ==
    /\ [](/\ client.pc = "find" => client.attempt < 30 /\ Len(beacons) = client.attempt
          /\ (client.pc = "exit" /\ client.forward = NoValue)
                => client.attempt = 30 /\ Len(beacons) = 30
          /\ client.pc = "wait" => last.calls < 10
          /\ (client.pc = "exit" /\ client.forward # NoValue)
                => \/ last.calls = 10
                   \/ /\ last.arrived # NoValue
                      /\ last.arrived.some.source = client.forward.some
                      /\ last.arrived.some.packet_type = PT_ServiceResponse
                      /\ Len(last.arrived.some.data) >= 11
                      /\ last.arrived.some.data[11] # 0)
    /\ [][/\ last'.op = "find_server" =>
                /\ Len(beacons') = Len(beacons) + 1
                /\ (last'.beacon = NoValue \/ ~last'.beacon.some.checksum_ok)
                      => client'.forward = NoValue
          /\ (/\ last'.op = "receive_data"
              /\ last'.arrived # NoValue
              /\ last'.arrived.some.source = client.forward.some
              /\ last'.arrived.some.packet_type = PT_ServiceResponse
              /\ Len(last'.arrived.some.data) >= 11) =>
                IF last'.arrived.some.data[11] = 0
                THEN /\ client'.pc = "loop"
                     /\ client'.endpoint # NoValue
                     /\ client'.endpoint.some.server_id
                            = SubSeq(last'.arrived.some.data, 5, 10)
                ELSE /\ client'.pc = "exit"
                     /\ client'.endpoint = NoValue
          /\ (/\ last'.op = "receive_data"
              /\ ~(/\ last'.arrived # NoValue
                   /\ last'.arrived.some.source = client.forward.some
                   /\ last'.arrived.some.packet_type = PT_ServiceResponse
                   /\ Len(last'.arrived.some.data) >= 11)) =>
                /\ client'.endpoint = NoValue
                /\ client'.pc = IF last'.calls = 10 THEN "exit" ELSE "wait"
         ]_vars

\* find_server found the forward at its last attempt, and request_service
\* gave up after its tenth receive_data.
C28_Witness ==
    /\ client.pc = "exit"
    /\ client.forward = [some |-> ForwardId]
    /\ client.attempt = 29
    /\ Len(beacons) = 30
    /\ last.op = "receive_data"
    /\ last.calls = 10
    /\ client.endpoint = NoValue

-----------------------------------------------------------------------------
(* PathWaitSpec: the main loop of client_main while the client waits for    *)
(* the PathConfirm.  `now` is the time since the client's hardware was      *)
(* created (SimHardware::get_timestamp_ms); the loop is entered at once     *)
(* when discovery and request_service took no time, or 31 s later when      *)
(* find_server needed 25 further attempts of 1 s and request_service 6.     *)

LOOP_DELAY_MS == 100

PathWaitStarts == {TimeZero, Time(0, 31000)}

\* what may arrive from the forward during the wait: a PathConfirm with
\* status Success or QosNotMet, one too short to be read, and a data packet
PathWaitPackets ==
    {WirePacket(PT_PathConfirm, ForwardId, ClientId, 0,
                ServerId \o <<status, 1>>) : status \in {PathStatus_Success,
                                                         PathStatus_QosNotMet}}
        \cup {WirePacket(PT_PathConfirm, ForwardId, ClientId, 0,
                         ServerId \o <<PathStatus_Success>>),
              WirePacket(PT_Data, ForwardId, ClientId, 0,
                         ServerId \o <<PathStatus_Success, 1>>)}

PathWaitInit ==
    /\ services = EmptyDirectory
    /\ service_count = 0
    /\ last_cleanup_time = TimeZero
    /\ routes = EmptyRoutes
    /\ route_count = 0
    /\ cleanup_timer = TimeZero
    /\ clock \in PathWaitStarts
    /\ overflow_checks = FALSE
    /\ panicked = FALSE
    /\ last = [op |-> "request_service", wait_started |-> clock]
    /\ tx = <<>>
    /\ chain = <<>>
    /\ packets = <<>>
    /\ beacons = <<>>
    /\ client = [DiscoveryStart EXCEPT
                    !.pc = "loop",
                    !.forward = [some |-> ForwardId],
                    !.endpoint = [some |-> [service_id |-> 7, server_id |-> ServerId]]]
    /\ forward_pc = "off"
    /\ election = [election_id |-> 0, state |-> "Idle", current_master |-> NoValue]
    /\ delivered = {}
    /\ peer_election = [election_id |-> 0, state |-> "Idle", current_master |-> NoValue]
    /\ timers = LoopTimersStart

\* A packet for the client is put on the bus.
PathWaitArrive ==
    \E packet \in PathWaitPackets :
        /\ client.pc = "loop"
        /\ ~client.path_established
        /\ packets = <<>>
        /\ packets' = Push(packets, ForwardId, <<packet>>)
        /\ UNCHANGED <<dirVars, routeVars, clock, overflow_checks, panicked, last, tx,
                       chain, beacons, client, forward_pc, election, delivered,
                       peer_election, timers>>

\* One iteration of the loop: the time is read, a packet is received, the
\* path or the timeout is looked at, and unless the client returned the
\* iteration ends with delay_ms(100).
PathWaitIteration ==
    LET r == ClientLoop(client, packets, clock)
    IN  /\ client.pc = "loop"
        /\ ~client.path_established
        /\ client' = r.client
        /\ packets' = r.packets
        /\ delivered' = delivered \cup r.got
        /\ clock' = IF r.client.pc = "exit" THEN clock
                    ELSE Time(clock.hi, clock.lo + LOOP_DELAY_MS)
        /\ last' = [op |-> "loop", wait_started |-> last.wait_started, now |-> clock,
                    received |-> Receive(packets, ClientId).msg]
        /\ UNCHANGED <<dirVars, routeVars, overflow_checks, panicked, tx, chain,
                       beacons, forward_pc, election, peer_election, timers>>

PathWaitNext ==
    \/ PathWaitArrive
    \/ PathWaitIteration

PathWaitSpec == PathWaitInit /\ [][PathWaitNext]_vars

\* C29: the client does not abandon the wait for the PathConfirm before
\* 30000 ms have passed since the wait began, and abandons it in the
\* iteration that finds these passed with no Success PathConfirm received.
C29_WaitsThirtySeconds ==
    [][last'.op = "loop" =>
          /\ client'.pc = "exit" => Elapsed(last'.now, last'.wait_started) >= PATH_TIMEOUT_MS
          /\ (/\ Elapsed(last'.now, last'.wait_started) > PATH_TIMEOUT_MS
              /\ ~IsPathSuccess(last'.received)) => client'.pc = "exit"
      ]_vars

-----------------------------------------------------------------------------
(* ScoreSpec: ServiceEntry::score applied to entries and QoS requirements   *)
(* taken from the edges of each term: surpluses below, at and above the     *)
(* caps, the ends of each integer type, both sides of each signal bucket.   *)

ScoreBandwidths == {0, 500, 599, 1500, 1501, U16 - 1}
ScoreLatencies == {0, 50, 550, U16 - 1}
ScoreReliabilities == {0, 49, 50, U8 - 1}
ScoreLoads == {0, 1, 100}
ScoreBatteries == {0, 100, U8 - 1}
ScoreSignals == {-128, -90, -89, -75, -74, -60, -59, 127}

ScoreEntries ==
    {[load |-> ld,
      capabilities |-> [max_bandwidth |-> bw, min_latency |-> lat,
                        reliability |-> rel, battery_level |-> bat],
      metrics |-> [success_rate |-> 100, avg_response_time |-> 0,
                   signal_strength |-> sig]] :
        ld \in ScoreLoads, bw \in ScoreBandwidths, lat \in ScoreLatencies,
        rel \in ScoreReliabilities, bat \in ScoreBatteries, sig \in ScoreSignals}

ScoreQos ==
    {[min_bandwidth |-> bw, max_latency |-> lat, reliability |-> rel] :
        bw \in {0, 500}, lat \in {50, U16 - 1}, rel \in {0, 50}}

Qualifies(e, qos) ==
    /\ e.capabilities.max_bandwidth >= qos.min_bandwidth
    /\ e.capabilities.min_latency <= qos.max_latency
    /\ e.capabilities.reliability >= qos.reliability

SignalBucket(signal) ==
    IF signal > -60 THEN 5 ELSE IF signal > -75 THEN 3 ELSE IF signal > -90 THEN 1 ELSE 0

\* Every value score computes on the way, in the order of the code and
\* without any wrapping, each with the number of values of its integer type.
\* A term after a failed bound is never computed.
ScoreSteps(e, qos) ==
    LET bw_ok == e.capabilities.max_bandwidth >= qos.min_bandwidth
        lat_ok == e.capabilities.min_latency <= qos.max_latency
        rel_ok == e.capabilities.reliability >= qos.reliability
        bw_surplus == e.capabilities.max_bandwidth - qos.min_bandwidth
        bw == 40 * (1 + Min(bw_surplus, 1000) \div 100)
        lat_slack == qos.max_latency - e.capabilities.min_latency
        lat == 30 * (1 + Min(lat_slack, 500) \div 50)
        rel_surplus == e.capabilities.reliability - qos.reliability
        rel_factor == 1 + Min(rel_surplus, 50) \div 10
        ld == 100 - e.load
        sig == SignalBucket(e.metrics.signal_strength)
    IN  IF ~bw_ok THEN <<>>
        ELSE <<<<bw_surplus, U16>>, <<1 + Min(bw_surplus, 1000) \div 100, U16>>,
               <<bw, U16>>>>
            \o IF ~lat_ok THEN <<>>
               ELSE <<<<lat_slack, U16>>, <<1 + Min(lat_slack, 500) \div 50, U16>>,
                      <<lat, U16>>, <<bw + lat, U16>>>>
            \o IF ~lat_ok \/ ~rel_ok THEN <<>>
               ELSE <<<<rel_surplus, U8>>, <<rel_factor, U8>>, <<20 * rel_factor, U16>>,
                      <<bw + lat + 20 * rel_factor, U16>>,
                      <<ld, U16>>, <<10 * ld, U16>>,
                      <<bw + lat + 20 * rel_factor + (10 * ld) \div 10, U16>>,
                      <<5 * e.capabilities.battery_level, U16>>,
                      <<bw + lat + 20 * rel_factor + (10 * ld) \div 10
                            + (5 * e.capabilities.battery_level) \div 10, U16>>,
                      <<bw + lat + 20 * rel_factor + (10 * ld) \div 10
                            + (5 * e.capabilities.battery_level) \div 10 + sig, U16>>>>

\* score is a function of its arguments only: one call from the fresh state
\* for every entry and requirement.
ScoreCall ==
    /\ last.op = "new"
    /\ \E e \in ScoreEntries, qos \in ScoreQos :
            last' = [op |-> "score", entry |-> e, qos |-> qos, score |-> Score(e, qos)]
    /\ UNCHANGED <<dirVars, routeVars, clock, overflow_checks, panicked, tx, chain,
                   packets, beacons, client, forward_pc, election, delivered,
                   peer_election, timers>>

ScoreNext == ScoreCall

ScoreSpec == Init /\ [][ScoreNext]_vars

\* C30: for a load of 0..100 the score is 0 when a hard bound fails and
\* otherwise 40*(1 + min(bandwidth surplus, 1000) div 100)
\* + 30*(1 + min(latency slack, 500) div 50)
\* + 20*(1 + min(reliability surplus, 50) div 10) + (100 - load)
\* + (5*battery) div 10 + the signal bucket; every value computed on the way
\* fits its unsigned type; and of two qualifying entries that differ in
\* bandwidth only, the one with the larger surplus scores at least as high.
C30_ScoreFormula ==
    (last.op = "score" /\ last.entry.load \in 0..100) =>
        LET e == last.entry
            qos == last.qos
        IN  /\ ~Qualifies(e, qos) => last.score = 0
            /\ Qualifies(e, qos) =>
                  last.score =
                      40 * (1 + Min(e.capabilities.max_bandwidth - qos.min_bandwidth, 1000) \div 100)
                      + 30 * (1 + Min(qos.max_latency - e.capabilities.min_latency, 500) \div 50)
                      + 20 * (1 + Min(e.capabilities.reliability - qos.reliability, 50) \div 10)
                      + (100 - e.load)
                      + (5 * e.capabilities.battery_level) \div 10
                      + SignalBucket(e.metrics.signal_strength)
            /\ \A i \in 1..Len(ScoreSteps(e, qos)) :
                  ScoreSteps(e, qos)[i][1] \in 0..(ScoreSteps(e, qos)[i][2] - 1)
            /\ Qualifies(e, qos) =>
                  \A bw \in ScoreBandwidths :
                      bw >= e.capabilities.max_bandwidth =>
                          Score([e EXCEPT !.capabilities.max_bandwidth = bw], qos)
                              >= last.score

\* A qualifying entry with every term at its cap: the highest score there is.
C30_Witness ==
    /\ last.op = "score"
    /\ Qualifies(last.entry, last.qos)
    /\ last.entry.load = 0
    /\ last.entry.capabilities.max_bandwidth - last.qos.min_bandwidth > 1000
    /\ last.entry.capabilities.battery_level = U8 - 1
    /\ last.entry.metrics.signal_strength > -60
    /\ last.score = 440 + 330 + 120 + 100 + 127 + 5

-----------------------------------------------------------------------------
(* LoopSpec: the polling loop of forward_main over time, with a server that *)
(* sends a beacon and then stops, and a client that keeps sending data for  *)
(* that server.  Each iteration reads the time, looks at its three timers,  *)
(* receives a packet, receives a beacon and lets the election process a     *)
(* message.  The readings of the time are those of LoopTimes in turn, the   *)
(* iterations between them, in which nothing arrives, being left out;       *)
(* Time(1, 0) stands for every later time, at which all ages the code       *)
(* compares are far beyond their limits.                                    *)

BEACON_INTERVAL_MS == 60000
ELECTION_INTERVAL_MS == 300000

\* beacons the server sends before it stops
MaxServerBeacons == 1

\* data packets the client sends for the server
MaxClientPackets == 2

LoopTimes ==
    {Time(0, t) : t \in {1000, CLEANUP_INTERVAL_MS + 1000, ROUTE_EXPIRY_MS + 1000,
                         2 * ROUTE_EXPIRY_MS + 2000}}
        \cup {Time(1, 0)}

LoopInit ==
    /\ services = EmptyDirectory
    /\ service_count = 0
    /\ last_cleanup_time = TimeZero
    /\ routes = EmptyRoutes
    /\ route_count = 0
    /\ cleanup_timer = TimeZero
    /\ clock = TimeZero
    /\ overflow_checks = FALSE
    /\ panicked = FALSE
    /\ last = [op |-> "new"]
    /\ tx = <<>>
    /\ chain = <<>>
    /\ packets = <<>>
    /\ beacons = <<>>
    /\ client = [pc |-> "off"]
    /\ forward_pc = "timers"
    /\ election = [election_id |-> 0, state |-> "Idle", current_master |-> NoValue]
    /\ delivered = {}
    /\ peer_election = [election_id |-> 0, state |-> "Idle", current_master |-> NoValue]
    /\ timers = LoopTimersStart

\* The head of an iteration: the time is read, then the beacon timer, the
\* election timer and the directory's cleanup timer are looked at.  No timer
\* belongs to the routing table: ForwardingEngine::cleanup has no caller.
LoopTimers ==
    \E now \in LoopTimes :
        LET beacon_due == Elapsed(now, timers.beacon_timer) > BEACON_INTERVAL_MS
            election_due == Elapsed(now, timers.election_timer) > ELECTION_INTERVAL_MS
            cleanup_due == Elapsed(now, timers.directory_cleanup_timer) > CLEANUP_INTERVAL_MS
            e == IF election_due THEN InitiateElection(ForwardId, election)
                 ELSE [election |-> election, tx |-> <<>>]
            d == IF cleanup_due
                 THEN DirCleanup(services, service_count, last_cleanup_time, now)
                 ELSE [services |-> services, service_count |-> service_count,
                       last_cleanup_time |-> last_cleanup_time]
        IN  /\ forward_pc = "timers"
            /\ TimeLE(clock, now)
            /\ now # clock \/ clock = Time(1, 0)
            /\ \A t \in LoopTimes : TimeLE(t, clock) \/ TimeLE(now, t)
            /\ clock' = now
            /\ beacons' = IF beacon_due
                          THEN Push(beacons, ForwardId, <<BusBeacon(ForwardId)>>)
                          ELSE beacons
            /\ election' = e.election
            /\ packets' = Push(packets, ForwardId, e.tx)
            /\ services' = d.services
            /\ service_count' = d.service_count
            /\ last_cleanup_time' = d.last_cleanup_time
            /\ timers' = [beacon_timer |->
                              IF beacon_due THEN now ELSE timers.beacon_timer,
                          election_timer |->
                              IF election_due THEN now ELSE timers.election_timer,
                          directory_cleanup_timer |->
                              IF cleanup_due THEN now ELSE timers.directory_cleanup_timer]
            /\ forward_pc' = "recv"
            /\ last' = [op |-> "timers"]
            /\ UNCHANGED <<routeVars, overflow_checks, panicked, tx, chain, client,
                           delivered, peer_election>>

\* The tail of an iteration: election.process_messages, then delay_ms(1000).
LoopElection ==
    /\ forward_pc = "election"
    /\ LET r == Receive(packets, ForwardId)
           e == IF r.msg = NoValue THEN [election |-> election, tx |-> <<>>]
                ELSE ProcessMessages(ForwardId, election, r.msg.some)
       IN  /\ packets' = Push(r.queue, ForwardId, e.tx)
           /\ election' = e.election
           /\ delivered' = delivered \cup Delivery(ForwardId, r)
    /\ forward_pc' = "timers"
    /\ last' = [op |-> "forward"]
    /\ UNCHANGED <<dirVars, routeVars, clock, overflow_checks, panicked, tx, chain,
                   beacons, client, peer_election, timers>>

\* The server sends a beacon, which it does only while the forward starts;
\* `chain` keeps the beacons it has sent.
LoopServerBeacon ==
    /\ Len(chain) < MaxServerBeacons
    /\ clock = TimeZero
    /\ beacons' = Push(beacons, ServerId, <<BusBeacon(ServerId)>>)
    /\ chain' = Append(chain, BusBeacon(ServerId))
    /\ UNCHANGED <<dirVars, routeVars, clock, overflow_checks, panicked, last, tx,
                   packets, client, forward_pc, election, delivered, peer_election,
                   timers>>

\* The client sends a data packet for the server; `tx` keeps what it sent.
LoopClientData ==
    /\ Len(tx) < MaxClientPackets
    /\ packets' = Push(packets, ClientId,
                       <<NewDataPacket(ClientId, ServerId, Len(tx), <<VIDEO_DATA_TAG>>)>>)
    /\ tx' = Append(tx, NewDataPacket(ClientId, ServerId, Len(tx), <<VIDEO_DATA_TAG>>))
    /\ UNCHANGED <<dirVars, routeVars, clock, overflow_checks, panicked, last, chain,
                   beacons, client, forward_pc, election, delivered, peer_election,
                   timers>>

LoopNext ==
    \/ LoopTimers
    \/ FwdRecv
    \/ FwdBeacon
    \/ LoopElection
    \/ LoopServerBeacon
    \/ LoopClientData

\* The forward's thread keeps running, so the time it reads passes every
\* limit.
LoopSpec ==
    /\ LoopInit
    /\ [][LoopNext]_vars
    /\ WF_vars(LoopTimers \/ FwdRecv \/ FwdBeacon \/ LoopElection)

\* C32: the routing table is swept in the forward's loop: once the server
\* has stopped sending beacons its route is eventually removed for good.
C32_StaleRouteSwept ==
    <>[](GetNextHop(routes, ServerId) = NoValue)

-----------------------------------------------------------------------------
(* SharedQueueSpec: the forward's loop draws twice from the one data queue  *)
(* in an iteration, once for the dispatch and once in process_messages,     *)
(* while the client sends service requests and video data.  No election     *)
(* timer fires and no node sends an election message.                       *)

\* request_service, for a service type of the caller's choice
QueueClientRequest ==
    /\ Len(tx) < MaxClientPackets
    /\ \E st \in {ST_Storage, ST_VideoRelay} :
          LET p == NewDataPacket(ClientId, ForwardId, 0,
                     SerializeServiceRequest([ClientRequest EXCEPT !.service_type = st]))
          IN  /\ packets' = Push(packets, ClientId, <<p>>)
              /\ tx' = Append(tx, p)
    /\ UNCHANGED <<dirVars, routeVars, clock, overflow_checks, panicked, last, chain,
                   beacons, client, forward_pc, election, delivered, peer_election,
                   timers>>

\* send_video_data, to the endpoint a response named
QueueClientVideo ==
    /\ Len(tx) < MaxClientPackets
    /\ LET endpoint == [service_id |-> 1, server_id |-> ServerId]
           v == NewDataPacket(ClientId, endpoint.server_id, FrameNumber(clock) % U16,
                              VideoData(endpoint, clock))
       IN  /\ packets' = Push(packets, ClientId, <<v>>)
           /\ tx' = Append(tx, v)
    /\ UNCHANGED <<dirVars, routeVars, clock, overflow_checks, panicked, last, chain,
                   beacons, client, forward_pc, election, delivered, peer_election,
                   timers>>

SharedQueueNext ==
    \/ QueueClientRequest
    \/ QueueClientVideo
    \/ FwdRecv
    \/ FwdBeacon
    \/ FwdElection

SharedQueueSpec == NetInit /\ [][SharedQueueNext]_vars

\* C36: with no election timer firing and no node sending an election
\* message, the packets process_messages draws from the shared queue (service
\* requests and responses, path messages, data) leave the forward's election
\* state, election id and master as they are.
C36_OnlyElectionMessagesCount ==
    [][election' = election]_vars

-----------------------------------------------------------------------------
(* ServiceDataSpec: the main loop of client_main before and after the path  *)
(* is established.  Packets for the client keep arriving; the loop is       *)
(* followed until the client returns or has sent MaxVideoFrames frames.     *)

MaxVideoFrames == 2

\* what the client has put on the bus
ClientFrames(queue) == {i \in 1..Len(queue) : queue[i].from = ClientId}

\* A packet for the client is put on the bus while none is waiting for it.
ServiceDataArrive ==
    /\ client.pc = "loop"
    /\ Receive(packets, ClientId).msg = NoValue
    /\ Cardinality(ClientFrames(packets)) < MaxVideoFrames
    /\ \E packet \in PathWaitPackets :
          packets' = Push(packets, ForwardId, <<packet>>)
    /\ UNCHANGED <<dirVars, routeVars, clock, overflow_checks, panicked, last, tx,
                   chain, beacons, client, forward_pc, election, delivered,
                   peer_election, timers>>

\* One iteration of the loop, ending with delay_ms(100) unless the client
\* returned.
ServiceDataIteration ==
    LET r == ClientLoop(client, packets, clock)
    IN  /\ client.pc = "loop"
        /\ Cardinality(ClientFrames(packets)) < MaxVideoFrames
        /\ client' = r.client
        /\ packets' = r.packets
        /\ delivered' = delivered \cup r.got
        /\ clock' = IF r.client.pc = "exit" THEN clock
                    ELSE Time(clock.hi, clock.lo + LOOP_DELAY_MS)
        /\ last' = [op |-> "loop", wait_started |-> last.wait_started, now |-> clock,
                    received |-> Receive(packets, ClientId).msg]
        /\ UNCHANGED <<dirVars, routeVars, overflow_checks, panicked, tx, chain,
                       beacons, forward_pc, election, peer_election, timers>>

ServiceDataNext ==
    \/ ServiceDataArrive
    \/ ServiceDataIteration

ServiceDataSpec == PathWaitInit /\ [][ServiceDataNext]_vars

\* The client has received a PathConfirm of 8 bytes or more with status
\* Success.
ConfirmReceived ==
    \E d \in delivered :
        /\ d.node = ClientId
        /\ d.packet.packet_type = PT_PathConfirm
        /\ Len(d.packet.data) >= PATH_CONFIRM_LEN
        /\ d.packet.data[7] = PathStatus_Success

\* C38: the client sends no service data and does not hold the path for
\* established before it has received a PathConfirm of at least 8 bytes with
\* status Success; an established path stays established, and the client
\* does not give up the wait once it is.
C38_DataOnlyOnConfirmedPath ==
    /\ [](ClientFrames(packets) # {} => ConfirmReceived)
    /\ [](client.path_established => ConfirmReceived)
    /\ [][client.path_established =>
             client'.path_established /\ client'.pc = "loop"]_vars

\* The client took a failed and a short confirmation, went on waiting, was
\* confirmed later and has sent a frame.
C38_Witness ==
    /\ client.path_established
    /\ ClientFrames(packets) # {}
    /\ \E d \in delivered :
          d.packet.packet_type = PT_PathConfirm /\ d.packet.data[7] = PathStatus_QosNotMet
    /\ \E d \in delivered :
          d.packet.packet_type = PT_PathConfirm /\ Len(d.packet.data) < PATH_CONFIRM_LEN

-----------------------------------------------------------------------------
(* ExchangeSpec: two forwards whose node ids begin with the same byte, and  *)
(* so have the same priority, run the election protocol over the shared     *)
(* bus.  One election timer expires, once; after that elections start only  *)
(* from handle_election_start.                                              *)

\* elections a node holds before the exchange is no longer followed
MaxChallenges == 4

\* a forward with the priority of ForwardId
TwinId == <<241, 1, 2, 3, 4, 5>>

ExchangeNodes == {ForwardId, TwinId}

\* The node's election record becomes `el`, the other node's stays.
SetExchange(node, el) ==
    /\ election' = IF node = ForwardId THEN el ELSE election
    /\ peer_election' = IF node = TwinId THEN el ELSE peer_election

\* The election timer of one node expires while no election has been held:
\* initiate_election, up to its wait.
ExchangeTimer ==
    \E node \in ExchangeNodes :
        /\ election.state = "Idle"
        /\ peer_election.state = "Idle"
        /\ packets = <<>>
        /\ SetExchange(node, BeginElection(node, ElectionOf(node)).election)
        /\ packets' = Push(packets, node, BeginElection(node, ElectionOf(node)).tx)
        /\ last' = [op |-> "initiate_election", node |-> node]
        /\ UNCHANGED <<dirVars, routeVars, clock, overflow_checks, panicked, tx, chain,
                       beacons, client, forward_pc, delivered, timers>>

\* A node's collection wait is over: finish_election.
ExchangeFinish(node) ==
    /\ ElectionOf(node).state = "Electing"
    /\ SetExchange(node, FinishElection(node, ElectionOf(node)).election)
    /\ packets' = Push(packets, node, FinishElection(node, ElectionOf(node)).tx)
    /\ last' = [op |-> "finish_election", node |-> node]
    /\ UNCHANGED <<dirVars, routeVars, clock, overflow_checks, panicked, tx, chain,
                   beacons, client, forward_pc, delivered, timers>>

\* A node's process_messages takes the next packet off the bus.  Where the
\* handler calls initiate_election the step ends at the collection wait.
\* The exchange is followed for MaxChallenges elections of each node: an
\* ElectionStart still on the bus when a node has held that many stands for
\* the exchange going on.
ExchangeReceive(node) ==
    LET r == Receive(packets, node)
        el == ElectionOf(node)
        challenge == /\ r.msg.some.data # <<>>
                     /\ r.msg.some.data[1] = ELECTION_START
                     /\ StartDecision(node, el, r.msg.some) = "challenge"
        e == IF challenge THEN BeginElection(node, el)
             ELSE ProcessMessages(node, el, r.msg.some)
    IN  /\ el.state # "Electing"
        /\ r.msg # NoValue
        /\ challenge => el.election_id < MaxChallenges
        /\ SetExchange(node, e.election)
        /\ packets' = Push(r.queue, node, e.tx)
        /\ last' = [op |-> "process_messages", node |-> node,
                    packet |-> r.msg.some, challenge |-> challenge]
        /\ UNCHANGED <<dirVars, routeVars, clock, overflow_checks, panicked, tx,
                       chain, beacons, client, forward_pc, delivered, timers>>

ExchangeNext ==
    \/ ExchangeTimer
    \/ \E node \in ExchangeNodes : ExchangeFinish(node)
    \/ \E node \in ExchangeNodes : ExchangeReceive(node)

\* Each forward's loop keeps running: a wait ends, and process_messages is
\* called again.
ExchangeSpec ==
    /\ AgreementInit
    /\ [][ExchangeNext]_vars
    /\ \A node \in ExchangeNodes :
          WF_vars(ExchangeFinish(node)) /\ WF_vars(ExchangeReceive(node))

-----------------------------------------------------------------------------
(* RelaySpec: two forwards, ForwardId and PeerId, the client and the server *)
(* on the shared bus.  Both forwards have handled a beacon of the server    *)
(* and a discovery beacon of the client, so their routing tables are the    *)
(* same and `routes` stands for both; forward_pc holds the position of      *)
(* each forward in its loop.  The server emits one PathConfirm.             *)

\* The routing table after the beacons of the server and of the client.
RelayTable ==
    LET s == HandleBeacon(ForwardId, EmptyRoutes, 0, TimeZero, EmptyDirectory, 0,
                          BusBeacon(ServerId), TimeZero)
    IN  HandleBeacon(ForwardId, s.routes, s.route_count, TimeZero, s.services,
                     s.service_count, BusBeacon(ClientId), TimeZero)

RelayInit ==
    /\ services = RelayTable.services
    /\ service_count = RelayTable.service_count
    /\ last_cleanup_time = TimeZero
    /\ routes = RelayTable.routes
    /\ route_count = RelayTable.route_count
    /\ cleanup_timer = TimeZero
    /\ clock \in PathWaitStarts
    /\ overflow_checks \in BOOLEAN
    /\ panicked = FALSE
    /\ last = [op |-> "new"]
    /\ tx = <<>>
    /\ chain = <<>>
    /\ packets = <<>>
    /\ beacons = <<>>
    /\ client = [ClientStart EXCEPT
                    !.pc = "loop",
                    !.endpoint = [some |-> [service_id |-> 7, server_id |-> ServerId]]]
    /\ forward_pc = [node \in Forwards |-> "recv"]
    /\ election = [election_id |-> 0, state |-> "Idle", current_master |-> NoValue]
    /\ delivered = {}
    /\ peer_election = [election_id |-> 0, state |-> "Idle", current_master |-> NoValue]
    /\ timers = LoopTimersStart

\* The server's PathConfirm for the client, addressed to one of the
\* forwards; `tx` keeps it.
RelayEmit ==
    /\ tx = <<>>
    /\ \E node \in Forwards :
          LET p == WirePacket(PT_PathConfirm, ServerId, node, 0,
                              ClientId \o <<PathStatus_Success, 1>>)
          IN  /\ packets' = Push(packets, ServerId, <<p>>)
              /\ tx' = <<p>>
    /\ UNCHANGED <<dirVars, routeVars, clock, overflow_checks, panicked, last, chain,
                   beacons, client, forward_pc, election, delivered, peer_election,
                   timers>>

\* forward_main of `node`: receive_data and the handler for the packet type.
RelayRecv(node) ==
    /\ ~panicked
    /\ forward_pc[node] = "recv"
    /\ LET r == Receive(packets, node)
           d == IF r.msg = NoValue THEN Sent(<<>>)
                ELSE Dispatch(node, services, routes, r.msg.some, clock,
                              overflow_checks)
       IN  /\ packets' = Push(r.queue, node, d.tx)
           /\ panicked' = d.panic
           /\ last' = [op |-> "dispatch", node |-> node, received |-> r.msg,
                       sent |-> d.tx]
    /\ forward_pc' = [forward_pc EXCEPT ![node] = "election"]
    /\ UNCHANGED <<dirVars, routeVars, clock, overflow_checks, tx, chain, beacons,
                   client, election, delivered, peer_election, timers>>

\* forward_main of `node`: election.process_messages, then delay_ms(1000).
RelayElection(node) ==
    /\ ~panicked
    /\ forward_pc[node] = "election"
    /\ LET r == Receive(packets, node)
           e == IF r.msg = NoValue THEN [election |-> ElectionOf(node), tx |-> <<>>]
                ELSE ProcessMessages(node, ElectionOf(node), r.msg.some)
       IN  /\ packets' = Push(r.queue, node, e.tx)
           /\ SetElection(node, e.election)
           /\ last' = [op |-> "process_messages", node |-> node, received |-> r.msg,
                       sent |-> e.tx]
    /\ forward_pc' = [forward_pc EXCEPT ![node] = "recv"]
    /\ UNCHANGED <<dirVars, routeVars, clock, overflow_checks, panicked, tx, chain,
                   beacons, client, delivered, timers>>

\* client_main: one iteration of the main loop; the time stands still.
RelayClient ==
    LET r == ClientLoop(client, packets, clock)
    IN  /\ client.pc = "loop"
        /\ client' = r.client
        /\ packets' = r.packets
        /\ last' = [op |-> "client", received |-> Receive(packets, ClientId).msg]
        /\ UNCHANGED <<dirVars, routeVars, clock, overflow_checks, panicked, tx, chain,
                       beacons, forward_pc, election, delivered, peer_election, timers>>

RelayNext ==
    \/ RelayEmit
    \/ \E node \in Forwards : RelayRecv(node)
    \/ \E node \in Forwards : RelayElection(node)
    \/ RelayClient
    \/ SrvStep

RelaySpec == RelayInit /\ [][RelayNext]_vars

\* The payload of a path confirmation for the client.
IsConfirmation(packet) ==
    /\ Len(packet.data) = PATH_CONFIRM_LEN
    /\ SubSeq(packet.data, 1, 6) = ClientId

\* C40: a forward that receives a confirmation which another forward has
\* relayed toward the client sends nothing: a confirmation is relayed once.
C40_ConfirmationRelayedOnce ==
    (/\ last.op = "dispatch"
     /\ last.received # NoValue
     /\ last.received.some.source \in Forwards
     /\ IsConfirmation(last.received.some))
        => last.sent = <<>>

=============================================================================
